---- MODULE Spec2Model ----
(***************************************************************************)
(* The chain-state cache of simular-core: the fork backend (forkdb.rs),    *)
(* the local-only backend (memdb.rs) and the snapshot export / import of   *)
(* the EVM wrapper (baseevm.rs).  One store is modelled at a time; `mode`  *)
(* says which backend owns it.                                             *)
(***************************************************************************)
EXTENDS Integers, FiniteSets, Sequences, TLC

\* ---------------------------------------------------------------- bounds
MaxSteps == 3       \* operations per behaviour
MaxSlot == 2        \* storage slot indexes 1..MaxSlot
MaxVal == 2         \* storage values 0..MaxVal
MaxBalance == 1     \* balances 0..MaxBalance

Address == {"a1", "a2"}
Slot == 1..MaxSlot
Value == 0..MaxVal
Balance == 0..MaxBalance

\* ------------------------------------------------------ primitive values
KECCAK_EMPTY == "KECCAK_EMPTY"
B256_ZERO == "B256_ZERO"
None == "None"                      \* Option::None of AccountInfo.code
EmptyCode == "empty"                \* Bytecode::new()
Bytecode == {EmptyCode, "c1"}

is_empty(code) == code = EmptyCode

hash_slow(code) == IF is_empty(code) THEN KECCAK_EMPTY ELSE "h_" \o code

\* Option<AccountInfo>, kept in one shape so that two results compare
Some(i) == [some |-> TRUE, v |-> i]

\* Result<T, DatabaseError>
Ok(v) == [tag |-> "Ok", val |-> v]

Err(e) == [tag |-> "Err", val |-> e]

GetAccount(a) == <<"GetAccount", a>>

GetStorage(a, i) == <<"GetStorage", a, i>>

MissingCode(h) == <<"MissingCode", h>>

\* AccountInfo::default()
AccountInfo_default ==
    [balance |-> 0, nonce |-> 0, code_hash |-> KECCAK_EMPTY, code |-> EmptyCode]

NoAccountInfo == [some |-> FALSE, v |-> AccountInfo_default]

\* AccountInfo::new(balance, nonce, code_hash, code)
AccountInfo_new(balance, nonce, code_hash, code) ==
    [balance |-> balance, nonce |-> nonce, code_hash |-> code_hash, code |-> code]

EmptyMap == [x \in {} |-> 0]

Put(f, k, v) == [x \in DOMAIN f \cup {k} |-> IF x = k THEN v ELSE f[x]]

\* DbAccount::default(): AccountState::None, no storage
DbAccount_default ==
    [info |-> AccountInfo_default, account_state |-> "None", storage |-> EmptyMap]

\* DbAccount::new_not_existing()
new_not_existing == [DbAccount_default EXCEPT !.account_state = "NotExisting"]

\* DbAccount::info(): a NotExisting account has no info
info(acc) == IF acc.account_state = "NotExisting" THEN NoAccountInfo ELSE Some(acc.info)

\* accounts.entry(address).or_default()
or_default(accs, a) == IF a \in DOMAIN accs THEN accs[a] ELSE DbAccount_default

\* ------------------------------------------------------------ the remote
\* What the remote endpoint holds at the fork's block.
RemoteCode(a) == IF a = "a1" THEN "c1" ELSE EmptyCode

RemoteBalance(a) == IF a = "a1" THEN 0 ELSE MaxBalance

RemoteNonce(a) == 1

RemoteStorage(a, i) == IF a = "a1" THEN (i % MaxVal) + 1 ELSE 0

\* fetch_basic_from_fork, the Ok branch: the code hash is computed from the code
fetch_basic_from_fork(a) ==
    AccountInfo_new(RemoteBalance(a), RemoteNonce(a), hash_slow(RemoteCode(a)), RemoteCode(a))

\* fetch_storage_from_fork, the Ok branch
fetch_storage_from_fork(a, i) == RemoteStorage(a, i)

\* ------------------------------------------------------------ the stores
\* contracts of a new ForkDb / InMemoryDb
contracts_default == [h \in {KECCAK_EMPTY, B256_ZERO} |-> EmptyCode]

\* insert_contract that stores the code with insert instead of
\* entry().or_insert_with()
insert_contract_overwrite(cs, account) ==
    LET has == account.code # None /\ ~is_empty(account.code)
        h1 == IF has /\ account.code_hash = KECCAK_EMPTY
              THEN hash_slow(account.code) ELSE account.code_hash
        cs1 == IF has THEN Put(cs, h1, account.code) ELSE cs
        h2 == IF h1 = B256_ZERO THEN KECCAK_EMPTY ELSE h1
    IN [contracts |-> cs1, info |-> [account EXCEPT !.code_hash = h2]]

\* ForkDb::insert_contract: stages the code under its hash (insert-if-absent) and
\* normalises the hash; returns the code store and the updated info
insert_contract(cs, account) ==
    LET has == account.code # None /\ ~is_empty(account.code)
        h1 == IF has /\ account.code_hash = KECCAK_EMPTY
              THEN hash_slow(account.code) ELSE account.code_hash
        cs1 == IF has /\ h1 \notin DOMAIN cs THEN Put(cs, h1, account.code) ELSE cs
        h2 == IF h1 = B256_ZERO THEN KECCAK_EMPTY ELSE h1
    IN [contracts |-> cs1, info |-> [account EXCEPT !.code_hash = h2]]

\* InMemoryDb::insert_contract (the same text as ForkDb's)
InMemoryDb_insert_contract(cs, account) ==
    LET has == account.code # None /\ ~is_empty(account.code)
        h1 == IF has /\ account.code_hash = KECCAK_EMPTY
              THEN hash_slow(account.code) ELSE account.code_hash
        cs1 == IF has /\ h1 \notin DOMAIN cs THEN Put(cs, h1, account.code) ELSE cs
        h2 == IF h1 = B256_ZERO THEN KECCAK_EMPTY ELSE h1
    IN [contracts |-> cs1, info |-> [account EXCEPT !.code_hash = h2]]

\* insert_account_info that stores a new record for the address
insert_account_info_replace(db, a, i) ==
    LET ic == insert_contract(db.contracts, i)
    IN [accounts |-> Put(db.accounts, a, [DbAccount_default EXCEPT !.info = ic.info]),
        contracts |-> ic.contracts]

\* ForkDb::insert_account_info on a store db = [accounts, contracts]
insert_account_info(db, a, i) ==
    LET ic == insert_contract(db.contracts, i)
    IN [accounts |-> Put(db.accounts, a, [or_default(db.accounts, a) EXCEPT !.info = ic.info]),
        contracts |-> ic.contracts]

\* InMemoryDb::insert_account_info
InMemoryDb_insert_account_info(db, a, i) ==
    LET ic == InMemoryDb_insert_contract(db.contracts, i)
    IN [accounts |-> Put(db.accounts, a, [or_default(db.accounts, a) EXCEPT !.info = ic.info]),
        contracts |-> ic.contracts]

\* code_by_hash that answers a miss with empty code
code_by_hash_default_on_miss(db, h) ==
    IF h \in DOMAIN db.contracts THEN Ok(db.contracts[h]) ELSE Ok(EmptyCode)

\* code_by_hash (the same in both backends)
code_by_hash(db, h) ==
    IF h \in DOMAIN db.contracts THEN Ok(db.contracts[h]) ELSE Err(MissingCode(h))

\* ----------------------------------------------------------------- reads
\* A read returns the store after the call, the result, and what happened at
\* the remote: "none" (not contacted), "ok" or "failed".  fetch_ok is the
\* outcome the remote request has if it is issued.

\* ForkDb::basic without the NotExisting sentinel: a failed fetch inserts nothing
ForkDb_basic_no_sentinel(db, a, fetch_ok) ==
    IF a \in DOMAIN db.accounts
    THEN [db |-> db, result |-> Ok(info(db.accounts[a])), fetch |-> "none"]
    ELSE IF fetch_ok
    THEN LET account == [DbAccount_default EXCEPT !.info = fetch_basic_from_fork(a)]
         IN [db |-> [db EXCEPT !.accounts = Put(@, a, account)],
             result |-> Ok(info(account)), fetch |-> "ok"]
    ELSE [db |-> db, result |-> Ok(NoAccountInfo), fetch |-> "failed"]

\* ForkDb::basic with a failed fetch cached as an existing empty account
ForkDb_basic_default_on_error(db, a, fetch_ok) ==
    IF a \in DOMAIN db.accounts
    THEN [db |-> db, result |-> Ok(info(db.accounts[a])), fetch |-> "none"]
    ELSE LET account == IF fetch_ok
                        THEN [DbAccount_default EXCEPT !.info = fetch_basic_from_fork(a)]
                        ELSE DbAccount_default
         IN [db |-> [db EXCEPT !.accounts = Put(@, a, account)],
             result |-> Ok(info(account)),
             fetch |-> IF fetch_ok THEN "ok" ELSE "failed"]

\* ForkDb::basic
ForkDb_basic(db, a, fetch_ok) ==
    IF a \in DOMAIN db.accounts
    THEN [db |-> db, result |-> Ok(info(db.accounts[a])), fetch |-> "none"]
    ELSE LET account == IF fetch_ok
                        THEN [DbAccount_default EXCEPT !.info = fetch_basic_from_fork(a)]
                        ELSE new_not_existing
         IN [db |-> [db EXCEPT !.accounts = Put(@, a, account)],
             result |-> Ok(info(account)),
             fetch |-> IF fetch_ok THEN "ok" ELSE "failed"]

\* InMemoryDb::basic
InMemoryDb_basic(db, a) ==
    LET accs == IF a \in DOMAIN db.accounts THEN db.accounts
                ELSE Put(db.accounts, a, new_not_existing)
    IN [db |-> [db EXCEPT !.accounts = accs], result |-> Ok(info(accs[a])), fetch |-> "none"]

\* ForkDb::storage with the zero default for StorageCleared only
ForkDb_storage_cleared_only(db, a, index, fetch_ok) ==
    IF a \in DOMAIN db.accounts
    THEN LET acc_entry == db.accounts[a]
         IN IF index \in DOMAIN acc_entry.storage
            THEN [db |-> db, result |-> Ok(acc_entry.storage[index]), fetch |-> "none"]
            ELSE IF acc_entry.account_state = "StorageCleared"
            THEN [db |-> db, result |-> Ok(0), fetch |-> "none"]
            ELSE IF fetch_ok
            THEN LET s == fetch_storage_from_fork(a, index)
                 IN [db |-> [db EXCEPT !.accounts[a].storage = Put(@, index, s)],
                     result |-> Ok(s), fetch |-> "ok"]
            ELSE [db |-> db, result |-> Err(GetStorage(a, index)), fetch |-> "failed"]
    ELSE [db |-> db, result |-> Err(GetAccount(a)), fetch |-> "none"]

\* ForkDb::storage with a failed fetch defaulted to zero and cached
ForkDb_storage_default_on_error(db, a, index, fetch_ok) ==
    IF a \in DOMAIN db.accounts
    THEN LET acc_entry == db.accounts[a]
         IN IF index \in DOMAIN acc_entry.storage
            THEN [db |-> db, result |-> Ok(acc_entry.storage[index]), fetch |-> "none"]
            ELSE IF acc_entry.account_state \in {"StorageCleared", "NotExisting"}
            THEN [db |-> db, result |-> Ok(0), fetch |-> "none"]
            ELSE LET s == IF fetch_ok THEN fetch_storage_from_fork(a, index) ELSE 0
                 IN [db |-> [db EXCEPT !.accounts[a].storage = Put(@, index, s)],
                     result |-> Ok(s), fetch |-> IF fetch_ok THEN "ok" ELSE "failed"]
    ELSE [db |-> db, result |-> Err(GetAccount(a)), fetch |-> "none"]

\* ForkDb::storage that loads a missing account the way basic does
ForkDb_storage_load_missing(db, a, index, fetch_ok) ==
    LET accs == IF a \in DOMAIN db.accounts THEN db.accounts
                ELSE Put(db.accounts, a, DbAccount_default)
        acc_entry == accs[a]
    IN IF index \in DOMAIN acc_entry.storage
       THEN [db |-> db, result |-> Ok(acc_entry.storage[index]), fetch |-> "none"]
       ELSE IF acc_entry.account_state \in {"StorageCleared", "NotExisting"}
       THEN [db |-> db, result |-> Ok(0), fetch |-> "none"]
       ELSE IF fetch_ok
       THEN LET s == fetch_storage_from_fork(a, index)
            IN [db |-> [db EXCEPT !.accounts = Put(accs, a,
                            [acc_entry EXCEPT !.storage = Put(@, index, s)])],
                result |-> Ok(s), fetch |-> "ok"]
       ELSE [db |-> db, result |-> Err(GetStorage(a, index)), fetch |-> "failed"]

\* ForkDb::storage
ForkDb_storage(db, a, index, fetch_ok) ==
    IF a \in DOMAIN db.accounts
    THEN LET acc_entry == db.accounts[a]
         IN IF index \in DOMAIN acc_entry.storage
            THEN [db |-> db, result |-> Ok(acc_entry.storage[index]), fetch |-> "none"]
            ELSE IF acc_entry.account_state \in {"StorageCleared", "NotExisting"}
            THEN [db |-> db, result |-> Ok(0), fetch |-> "none"]
            ELSE IF fetch_ok
            THEN LET s == fetch_storage_from_fork(a, index)
                 IN [db |-> [db EXCEPT !.accounts[a].storage = Put(@, index, s)],
                     result |-> Ok(s), fetch |-> "ok"]
            ELSE [db |-> db, result |-> Err(GetStorage(a, index)), fetch |-> "failed"]
    ELSE [db |-> db, result |-> Err(GetAccount(a)), fetch |-> "none"]

\* InMemoryDb::storage
InMemoryDb_storage(db, a, index) ==
    IF a \in DOMAIN db.accounts
    THEN LET acc_entry == db.accounts[a]
         IN IF index \in DOMAIN acc_entry.storage
            THEN [db |-> db, result |-> Ok(acc_entry.storage[index]), fetch |-> "none"]
            ELSE IF acc_entry.account_state \in {"StorageCleared", "NotExisting"}
            THEN [db |-> db, result |-> Ok(0), fetch |-> "none"]
            ELSE [db |-> db, result |-> Err(GetStorage(a, index)), fetch |-> "none"]
    ELSE [db |-> db, result |-> Err(GetAccount(a)), fetch |-> "none"]

\* ---------------------------------------------------------------- commit
\* an account counts as touched whatever its status
is_touched_always(account) == account.status \subseteq {"Touched", "SelfDestructed", "Created"}

\* A batch entry (revm Account): info, status flags, and the touched slots
\* with their original and present values.
is_touched(account) == "Touched" \in account.status

is_selfdestructed(account) == "SelfDestructed" \in account.status

is_created(account) == "Created" \in account.status

\* the value the slot had before the transaction
original_value(slot) == slot.previous_or_original_value

present_value(slot) == slot.present_value

\* storage.extend(account.storage.map(|(k, v)| (k, v.present_value())))
extend(storage, writes) ==
    [k \in DOMAIN storage \cup DOMAIN writes |->
        IF k \in DOMAIN writes THEN present_value(writes[k]) ELSE storage[k]]

\* ForkDb::commit whose self-destruct branch keeps the storage map
ForkDb_commit_account_keep_storage(db, address, account) ==
    IF ~is_touched(account) THEN db
    ELSE IF is_selfdestructed(account)
    THEN [db EXCEPT !.accounts = Put(@, address,
            [info |-> AccountInfo_default, account_state |-> "NotExisting",
             storage |-> or_default(db.accounts, address).storage])]
    ELSE LET is_newly_created == is_created(account)
             ic == insert_contract(db.contracts, account.info)
             db_account == or_default(db.accounts, address)
             state == IF is_newly_created THEN "StorageCleared"
                      ELSE IF db_account.account_state = "StorageCleared"
                      THEN "StorageCleared" ELSE "Touched"
             cleared == IF is_newly_created THEN EmptyMap ELSE db_account.storage
         IN [accounts |-> Put(db.accounts, address,
                [info |-> ic.info, account_state |-> state,
                 storage |-> extend(cleared, account.storage)]),
             contracts |-> ic.contracts]

\* ForkDb::commit whose created branch does not clear the old storage
ForkDb_commit_account_no_clear(db, address, account) ==
    IF ~is_touched(account) THEN db
    ELSE IF is_selfdestructed(account)
    THEN [db EXCEPT !.accounts = Put(@, address,
            [info |-> AccountInfo_default, account_state |-> "NotExisting",
             storage |-> EmptyMap])]
    ELSE LET is_newly_created == is_created(account)
             ic == insert_contract(db.contracts, account.info)
             db_account == or_default(db.accounts, address)
             state == IF is_newly_created THEN "StorageCleared"
                      ELSE IF db_account.account_state = "StorageCleared"
                      THEN "StorageCleared" ELSE "Touched"
         IN [accounts |-> Put(db.accounts, address,
                [info |-> ic.info, account_state |-> state,
                 storage |-> extend(db_account.storage, account.storage)]),
             contracts |-> ic.contracts]

\* ForkDb::commit that marks every account it updates Touched
ForkDb_commit_account_always_touched(db, address, account) ==
    IF ~is_touched(account) THEN db
    ELSE IF is_selfdestructed(account)
    THEN [db EXCEPT !.accounts = Put(@, address,
            [info |-> AccountInfo_default, account_state |-> "NotExisting",
             storage |-> EmptyMap])]
    ELSE LET is_newly_created == is_created(account)
             ic == insert_contract(db.contracts, account.info)
             db_account == or_default(db.accounts, address)
             state == IF is_newly_created THEN "StorageCleared" ELSE "Touched"
             cleared == IF is_newly_created THEN EmptyMap ELSE db_account.storage
         IN [accounts |-> Put(db.accounts, address,
                [info |-> ic.info, account_state |-> state,
                 storage |-> extend(cleared, account.storage)]),
             contracts |-> ic.contracts]

\* ForkDb::commit, the body of the loop for one (address, account)
ForkDb_commit_account(db, address, account) ==
    IF ~is_touched(account) THEN db
    ELSE IF is_selfdestructed(account)
    THEN [db EXCEPT !.accounts = Put(@, address,
            [info |-> AccountInfo_default, account_state |-> "NotExisting",
             storage |-> EmptyMap])]
    ELSE LET is_newly_created == is_created(account)
             ic == insert_contract(db.contracts, account.info)
             db_account == or_default(db.accounts, address)
             state == IF is_newly_created THEN "StorageCleared"
                      ELSE IF db_account.account_state = "StorageCleared"
                      THEN "StorageCleared" ELSE "Touched"
             cleared == IF is_newly_created THEN EmptyMap ELSE db_account.storage
         IN [accounts |-> Put(db.accounts, address,
                [info |-> ic.info, account_state |-> state,
                 storage |-> extend(cleared, account.storage)]),
             contracts |-> ic.contracts]

\* the loop body that leaves the info of an account that is already stored
InMemoryDb_commit_account_keep_info(db, address, account) ==
    IF ~is_touched(account) THEN db
    ELSE IF is_selfdestructed(account)
    THEN [db EXCEPT !.accounts = Put(@, address,
            [info |-> AccountInfo_default, account_state |-> "NotExisting",
             storage |-> EmptyMap])]
    ELSE LET is_newly_created == is_created(account)
             ic == InMemoryDb_insert_contract(db.contracts, account.info)
             db_account == or_default(db.accounts, address)
             state == IF is_newly_created THEN "StorageCleared"
                      ELSE IF db_account.account_state = "StorageCleared"
                      THEN "StorageCleared" ELSE "Touched"
             cleared == IF is_newly_created THEN EmptyMap ELSE db_account.storage
         IN [accounts |-> Put(db.accounts, address,
                [info |-> IF address \in DOMAIN db.accounts THEN db_account.info ELSE ic.info,
                 account_state |-> state,
                 storage |-> extend(cleared, account.storage)]),
             contracts |-> ic.contracts]

\* InMemoryDb::commit, the body of the loop for one (address, account)
InMemoryDb_commit_account(db, address, account) ==
    IF ~is_touched(account) THEN db
    ELSE IF is_selfdestructed(account)
    THEN [db EXCEPT !.accounts = Put(@, address,
            [info |-> AccountInfo_default, account_state |-> "NotExisting",
             storage |-> EmptyMap])]
    ELSE LET is_newly_created == is_created(account)
             ic == InMemoryDb_insert_contract(db.contracts, account.info)
             db_account == or_default(db.accounts, address)
             state == IF is_newly_created THEN "StorageCleared"
                      ELSE IF db_account.account_state = "StorageCleared"
                      THEN "StorageCleared" ELSE "Touched"
             cleared == IF is_newly_created THEN EmptyMap ELSE db_account.storage
         IN [accounts |-> Put(db.accounts, address,
                [info |-> ic.info, account_state |-> state,
                 storage |-> extend(cleared, account.storage)]),
             contracts |-> ic.contracts]

\* commit that returns at the first account that is not touched
RECURSIVE ForkDb_commit_until_untouched(_, _, _)
ForkDb_commit_until_untouched(db, changes, order) ==
    IF order = <<>> \/ ~is_touched(changes[Head(order)]) THEN db
    ELSE ForkDb_commit_until_untouched(
            ForkDb_commit_account(db, Head(order), changes[Head(order)]),
            changes, Tail(order))

\* for (address, account) in changes, in the iteration order `order`
RECURSIVE ForkDb_commit(_, _, _)
ForkDb_commit(db, changes, order) ==
    IF order = <<>> THEN db
    ELSE ForkDb_commit(ForkDb_commit_account(db, Head(order), changes[Head(order)]),
                       changes, Tail(order))

RECURSIVE InMemoryDb_commit(_, _, _)
InMemoryDb_commit(db, changes, order) ==
    IF order = <<>> THEN db
    ELSE InMemoryDb_commit(InMemoryDb_commit_account(db, Head(order), changes[Head(order)]),
                           changes, Tail(order))

\* -------------------------------------------------------------- snapshot
\* Bytecode::original_bytes and Bytecode::new_raw: code <-> raw bytes
\* (the bytes of a code are modelled as the one-element sequence of its name)
original_bytes(code) == IF is_empty(code) THEN <<>> ELSE <<code>>

new_raw(bytes) == IF bytes = <<>> THEN EmptyCode ELSE bytes[1]

\* the closure of dump_state: the code of one account, inline or by hash
dump_code(db, v) == IF v.info.code # None THEN Ok(v.info.code)
                    ELSE code_by_hash(db, v.info.code_hash)

\* SerializableAccountRecord of one account
dump_account(db, v) ==
    [nonce |-> v.info.nonce, balance |-> v.info.balance,
     code |-> original_bytes(dump_code(db, v).val), storage |-> v.storage]

\* EvmMemory::dump_state / EvmFork::dump_state; `source` is the tag they set
dump_state(db, blknum, source) ==
    LET missing == {k \in DOMAIN db.accounts : dump_code(db, db.accounts[k]).tag = "Err"}
    IN IF missing # {}
       THEN {dump_code(db, db.accounts[k]) : k \in missing}
       ELSE {Ok([block_num |-> blknum, source |-> source,
                 accounts |-> [k \in DOMAIN db.accounts |-> dump_account(db, db.accounts[k])]])}

\* the loop body that credits the snapshot's balance to the balance the
\* account already has
load_account_record_credit(db, addr, account) ==
    LET db1 == InMemoryDb_insert_account_info(db, addr,
                   [balance |-> or_default(db.accounts, addr).info.balance + account.balance,
                    nonce |-> account.nonce,
                    code_hash |-> KECCAK_EMPTY,
                    code |-> IF account.code = <<>> THEN None ELSE new_raw(account.code)])
    IN [db1 EXCEPT !.accounts[addr].storage =
            [k \in DOMAIN @ \cup DOMAIN account.storage |->
                IF k \in DOMAIN account.storage THEN account.storage[k] ELSE @[k]]]

\* the body of load_state's loop for one (addr, account) of the snapshot
load_account_record(db, addr, account) ==
    LET db1 == InMemoryDb_insert_account_info(db, addr,
                   [balance |-> account.balance, nonce |-> account.nonce,
                    code_hash |-> KECCAK_EMPTY,
                    code |-> IF account.code = <<>> THEN None ELSE new_raw(account.code)])
    IN [db1 EXCEPT !.accounts[addr].storage =
            [k \in DOMAIN @ \cup DOMAIN account.storage |->
                IF k \in DOMAIN account.storage THEN account.storage[k] ELSE @[k]]]

\* ascending order of the BTreeMap keys
AddressOrder == <<"a0", "a1", "a2">>

sorted_keys(m) == SelectSeq(AddressOrder, LAMBDA a : a \in DOMAIN m)

RECURSIVE load_accounts(_, _, _)
load_accounts(db, accs, order) ==
    IF order = <<>> THEN db
    ELSE load_accounts(load_account_record(db, Head(order), accs[Head(order)]),
                       accs, Tail(order))

\* EvmMemory::load_state
load_state(db, cache) == load_accounts(db, cache.accounts, sorted_keys(cache.accounts))

\* InMemoryDb::default()
InMemoryDb_default == [accounts |-> EmptyMap, contracts |-> contracts_default]

\* ----------------------------------------------------------- block hashes
GetBlockHash(number) == <<"GetBlockHash", number>>

\* a panic of the calling thread (unwrap on None)
Panic == [tag |-> "Panic", val |-> <<"unwrap">>]

\* the hash the remote node holds for block n
RemoteBlockHash(n) == "blockhash_" \o ToString(n)

\* fetch_blockhash_from_fork: a number above u64::MAX is answered with
\* KECCAK_EMPTY without a request; otherwise the request fails ("failed"),
\* returns a block with its hash ("ok") or returns no block ("missing"), on
\* which block.unwrap() panics
fetch_blockhash_from_fork(number, outcome) ==
    IF number.over THEN [result |-> Ok(KECCAK_EMPTY), fetch |-> "none"]
    ELSE IF outcome = "ok" THEN [result |-> Ok(RemoteBlockHash(number.n)), fetch |-> "ok"]
    ELSE IF outcome = "failed" THEN [result |-> Err(<<"ProviderError">>), fetch |-> "failed"]
    ELSE [result |-> Panic, fetch |-> "missing"]

\* ForkDb::block_hash that returns a fetched hash without storing it
ForkDb_block_hash_no_cache(hashes, number, outcome) ==
    IF number \in DOMAIN hashes
    THEN [block_hashes |-> hashes, result |-> Ok(hashes[number]), fetch |-> "none"]
    ELSE LET hash == fetch_blockhash_from_fork(number, outcome)
         IN IF hash.result.tag = "Ok"
            THEN [block_hashes |-> hashes, result |-> hash.result, fetch |-> hash.fetch]
            ELSE IF hash.result.tag = "Err"
            THEN [block_hashes |-> hashes, result |-> Err(GetBlockHash(number)),
                  fetch |-> hash.fetch]
            ELSE [block_hashes |-> hashes, result |-> Panic, fetch |-> hash.fetch]

\* ForkDb::block_hash
ForkDb_block_hash(hashes, number, outcome) ==
    IF number \in DOMAIN hashes
    THEN [block_hashes |-> hashes, result |-> Ok(hashes[number]), fetch |-> "none"]
    ELSE LET hash == fetch_blockhash_from_fork(number, outcome)
         IN IF hash.result.tag = "Ok"
            THEN [block_hashes |-> Put(hashes, number, hash.result.val),
                  result |-> hash.result, fetch |-> hash.fetch]
            ELSE IF hash.result.tag = "Err"
            THEN [block_hashes |-> hashes, result |-> Err(GetBlockHash(number)),
                  fetch |-> hash.fetch]
            ELSE [block_hashes |-> hashes, result |-> Panic, fetch |-> hash.fetch]

\* InMemoryDb::block_hash
InMemoryDb_block_hash(hashes, number) ==
    IF number \in DOMAIN hashes
    THEN [block_hashes |-> hashes, result |-> Ok(hashes[number]), fetch |-> "none"]
    ELSE [block_hashes |-> hashes, result |-> Err(GetBlockHash(number)), fetch |-> "none"]

\* ------------------------------------------------------------- the state
VARIABLES
    mode,           \* "fork" (ForkDb) or "memory" (InMemoryDb)
    accounts,       \* address -> DbAccount
    contracts,      \* code hash -> bytecode
    block_number,   \* the store's block_number
    phase,          \* "live", or "dumped" between dump_state and load_state
    snap,           \* the last result of dump_state
    ret,            \* the last operation, its arguments and its result
    prev,           \* history: the store (and its mode) before the last operation
    basic_fetches,  \* history: remote account fetches issued, per address
    fetched,        \* history: remote storage fetches per (address, slot)
    destructed,     \* history: the address was self-destructed by a commit
    post_writes,    \* history: slots written since the last self-destruct
    steps,
    block_hashes,   \* block number -> hash
    timestamp,      \* the facade's timestamp
    clock,          \* history: block metadata at construction, and the advances since
    bridge,         \* the call of block_on in progress
    state,          \* the generic BaseEvm's state: "Some" or "None"
    fork_block_number   \* the block number the fork fetches remote state at

vars == <<mode, accounts, contracts, block_number, phase, snap, ret, prev,
          basic_fetches, fetched, destructed, post_writes, steps,
          block_hashes, timestamp, clock, bridge, state,
          fork_block_number>>

db == [accounts |-> accounts, contracts |-> contracts]

Before ==
    [accounts |-> accounts, contracts |-> contracts, mode |-> mode,
     block_hashes |-> block_hashes, block_number |-> block_number,
     timestamp |-> timestamp]

NoFetches == [a \in Address |-> [i \in Slot |-> [ok |-> 0, failed |-> 0]]]

ForkBlock == 7      \* the block the fork was created at

NoSnap == Err(<<"NoSnapshot">>)

\* a U256 block number: over says it exceeds u64::MAX, n is its value otherwise
NoNumber == [over |-> FALSE, n |-> 0]

\* the block number and timestamp of a BlockEnv
NoEnv == [number |-> 0, timestamp |-> 0, caller |-> "a0"]

\* history: no advance since the block metadata (block0, ts0) was set
NewClock(blk, ts, imported) ==
    [block0 |-> blk, ts0 |-> ts, calls |-> 0, elapsed |-> 0, imported |-> imported]

\* no call of block_on in progress
BridgeIdle ==
    [pc |-> "idle", context |-> "none", request |-> "none", answer |-> "none",
     thread |-> "none", caller |-> "running", result |-> "none"]

Ret(op, a, i, changes, result, fetch) ==
    [op |-> op, addr |-> a, index |-> i, changes |-> changes,
     result |-> result, fetch |-> fetch, hash |-> B256_ZERO,
     number |-> NoNumber, interval |-> 0, env |-> NoEnv, to |-> "a0"]

Init ==
    /\ mode \in {"fork", "memory"}
    /\ accounts = EmptyMap
    /\ contracts = contracts_default
    /\ block_number = IF mode = "fork" THEN ForkBlock ELSE 0
    /\ phase = "live"
    /\ snap = NoSnap
    /\ ret = Ret("new", "a1", 0, EmptyMap, Ok(0), "none")
    /\ block_hashes = EmptyMap
    /\ timestamp = 0
    /\ clock = NewClock(block_number, 0, FALSE)
    /\ prev = Before
    /\ basic_fetches = [a \in Address |-> 0]
    /\ fetched = NoFetches
    /\ destructed = [a \in Address |-> FALSE]
    /\ post_writes = [a \in Address |-> EmptyMap]
    /\ steps = 0
    /\ bridge = BridgeIdle
    /\ state = "Some"
    /\ fork_block_number = block_number

\* the block number handed to fetch_basic_from_fork and
\* fetch_storage_from_fork, where a request is issued: self.block_number
fetch_block(bn, fetch) ==
    IF fetch \in {"ok", "failed"} THEN [over |-> FALSE, n |-> bn] ELSE NoNumber

\* an operation that moves the store's block number on
StepWithin_advancing(n) ==
    /\ phase = "live"
    /\ steps < n
    /\ steps' = steps + 1
    /\ snap' = NoSnap
    /\ prev' = Before
    /\ block_number' = block_number + 1
    /\ UNCHANGED <<mode, phase, block_hashes, timestamp, clock, bridge, state,
                   fork_block_number>>

\* one operation of a behaviour of at most n operations
StepWithin(n) ==
    /\ phase = "live"
    /\ steps < n
    /\ steps' = steps + 1
    /\ snap' = NoSnap
    /\ prev' = Before
    /\ UNCHANGED <<mode, block_number, phase, block_hashes, timestamp, clock, bridge, state,
                   fork_block_number>>

Step == StepWithin(MaxSteps)

\* ------------------------------------------------------------------ reads
\* whether the remote node answers a request; only a fork has a remote node
RemoteOutcome == IF mode = "fork" THEN BOOLEAN ELSE {TRUE}

\* Database::basic(address)
BasicWithin(n, a) ==
    /\ StepWithin(n)
    /\ \E fetch_ok \in RemoteOutcome :
         LET r == IF mode = "fork" THEN ForkDb_basic(db, a, fetch_ok)
                  ELSE InMemoryDb_basic(db, a)
         IN /\ accounts' = r.db.accounts
            /\ contracts' = r.db.contracts
            /\ ret' = [Ret("basic", a, 0, EmptyMap, r.result, r.fetch)
                        EXCEPT !.number = fetch_block(block_number, r.fetch)]
            /\ basic_fetches' = [basic_fetches EXCEPT
                    ![a] = @ + (IF r.fetch = "none" THEN 0 ELSE 1)]
    /\ UNCHANGED <<fetched, destructed, post_writes>>

Basic(a) == BasicWithin(MaxSteps, a)

\* Database::storage(address, index)
StorageWithin(n, a, index) ==
    /\ StepWithin(n)
    /\ \E fetch_ok \in RemoteOutcome :
         LET r == IF mode = "fork" THEN ForkDb_storage(db, a, index, fetch_ok)
                  ELSE InMemoryDb_storage(db, a, index)
         IN /\ accounts' = r.db.accounts
            /\ contracts' = r.db.contracts
            /\ ret' = [Ret("storage", a, index, EmptyMap, r.result, r.fetch)
                        EXCEPT !.number = fetch_block(block_number, r.fetch)]
            /\ fetched' = [fetched EXCEPT
                    ![a][index].ok = @ + (IF r.fetch = "ok" THEN 1 ELSE 0),
                    ![a][index].failed = @ + (IF r.fetch = "failed" THEN 1 ELSE 0)]
    /\ UNCHANGED <<basic_fetches, destructed, post_writes>>

Storage(a, index) == StorageWithin(MaxSteps, a, index)

\* the code hashes asked for
CodeHash == {KECCAK_EMPTY, hash_slow("c1")}

\* Database::code_by_hash(code_hash): the same text in both backends, it
\* reads self.contracts only
CodeByHash(h) ==
    /\ Step
    /\ ret' = [Ret("code_by_hash", "a1", 0, EmptyMap, code_by_hash(db, h), "none")
                EXCEPT !.hash = h]
    /\ UNCHANGED <<accounts, contracts, basic_fetches, fetched, destructed, post_writes>>

\* ----------------------------------------------------------------- commit
\* The batches the execution engine hands to commit: per address an info,
\* status flags and the present values of at most one touched slot.  Address
\* a1 gets every kind of entry, a2 a few, and some batches hold both.
Eoa == AccountInfo_new(MaxBalance, 1, KECCAK_EMPTY, EmptyCode)

Contract == AccountInfo_new(0, 1, hash_slow("c1"), "c1")

TxInfo == {Eoa, Contract}

TxWrites == {[k \in {i} |-> v] : i \in Slot, v \in {0, MaxVal}}

Entry(i, st, w) == [info |-> i, status |-> st, writes |-> w]

BatchEntry ==
    {Entry(i, {"Touched"}, EmptyMap) : i \in TxInfo}
        \cup {Entry(Contract, {"Touched"}, w) : w \in TxWrites}
        \cup {Entry(Contract, {"Touched", "Created"}, w) :
                w \in {EmptyMap, [k \in {1} |-> 0], [k \in {MaxSlot} |-> MaxVal]}}
        \cup {Entry(Eoa, {"Touched", "SelfDestructed"}, EmptyMap),
              Entry(Contract, {"Touched", "SelfDestructed", "Created"}, [k \in {1} |-> 1]),
              Entry(Eoa, {}, EmptyMap),
              Entry(Contract, {"SelfDestructed", "Created"}, [k \in {1} |-> 1])}

OtherEntry ==
    {Entry(Eoa, {"Touched"}, EmptyMap),
     Entry(Contract, {"Touched", "Created"}, [k \in {1} |-> 1]),
     Entry(Eoa, {"Touched", "SelfDestructed"}, EmptyMap)}

Batch ==
    [{"a1"} -> BatchEntry] \cup [{"a2"} -> OtherEntry]
        \cup {[a \in Address |-> IF a = "a1" THEN e ELSE Entry(Contract, {"Touched"}, EmptyMap)] :
                e \in OtherEntry}

\* batches of two accounts of which one is not touched
MixedBatch ==
    {[a \in Address |-> IF a = x THEN Entry(Contract, {"SelfDestructed"}, [k \in {1} |-> 1])
                        ELSE Entry(Contract, {"Touched"}, [k \in {MaxSlot} |-> MaxVal])] :
        x \in Address}

\* the iteration orders of a HashMap with the keys S
Orders(S) ==
    {o \in [1..Cardinality(S) -> S] : \A i, j \in 1..Cardinality(S) : o[i] = o[j] => i = j}

\* the revm Account of a batch entry: the original value of a touched slot
\* is what the store holds for it before the transaction
TxAccount(a, e) ==
    [info |-> e.info, status |-> e.status,
     storage |-> [k \in DOMAIN e.writes |->
        [previous_or_original_value |->
            IF a \in DOMAIN accounts /\ k \in DOMAIN accounts[a].storage
            THEN accounts[a].storage[k] ELSE 0,
         present_value |-> e.writes[k]]]]

\* the values a batch entry leaves in the history of written slots
WritesAfter(old, account) ==
    IF ~is_touched(account) THEN old
    ELSE IF is_selfdestructed(account) THEN EmptyMap
    ELSE extend(IF is_created(account) THEN EmptyMap ELSE old, account.storage)

\* DatabaseCommit::commit(changes) for the batches B
CommitWithin(n, B) ==
    /\ StepWithin(n)
    /\ \E batch \in B : \E order \in Orders(DOMAIN batch) :
         LET changes == [a \in DOMAIN batch |-> TxAccount(a, batch[a])]
             db2 == IF mode = "fork" THEN ForkDb_commit(db, changes, order)
                    ELSE InMemoryDb_commit(db, changes, order)
         IN /\ accounts' = db2.accounts
            /\ contracts' = db2.contracts
            /\ ret' = Ret("commit", "a1", 0, changes, Ok(0), "none")
            /\ destructed' = [a \in Address |->
                    IF a \in DOMAIN changes /\ is_touched(changes[a])
                    THEN is_selfdestructed(changes[a]) \/ destructed[a]
                    ELSE destructed[a]]
            /\ post_writes' = [a \in Address |->
                    IF a \in DOMAIN changes THEN WritesAfter(post_writes[a], changes[a])
                    ELSE post_writes[a]]
    /\ UNCHANGED <<basic_fetches, fetched>>

CommitOf(B) == CommitWithin(MaxSteps, B)

Commit == CommitOf(Batch)

\* --------------------------------------------------------- administrative
\* Option<U256>
Amount == {[some |-> FALSE, v |-> 0], [some |-> TRUE, v |-> MaxBalance]}

\* create_account(caller, amount)
create_account(d, caller, amount) ==
    LET i == [AccountInfo_default EXCEPT !.balance = IF amount.some THEN amount.v ELSE @]
    IN IF mode = "fork" THEN insert_account_info(d, caller, i)
       ELSE InMemoryDb_insert_account_info(d, caller, i)

CreateAccount(a) ==
    /\ Step
    /\ \E amount \in Amount :
         LET db2 == create_account(db, a, amount)
         IN /\ accounts' = db2.accounts
            /\ contracts' = db2.contracts
            /\ ret' = Ret("create_account", a, 0, EmptyMap, Ok(amount), "none")
    /\ UNCHANGED <<basic_fetches, fetched, destructed, post_writes>>

\* an AccountInfo that names its code by hash only (code: None)
HashOnlyInfo == AccountInfo_new(0, 1, hash_slow("c1"), None)

\* insert_account_info(address, info) called with such an info
InsertAccountInfo(a) ==
    /\ Step
    /\ LET db2 == IF mode = "fork" THEN insert_account_info(db, a, HashOnlyInfo)
                  ELSE InMemoryDb_insert_account_info(db, a, HashOnlyInfo)
       IN /\ accounts' = db2.accounts
          /\ contracts' = db2.contracts
          /\ ret' = Ret("insert_account_info", a, 0, EmptyMap, Ok(0), "none")
    /\ UNCHANGED <<basic_fetches, fetched, destructed, post_writes>>

\* --------------------------------------------------------------- snapshot
\* dump_state(): on success the snapshot is handed to a new EvmMemory
DumpState ==
    /\ phase = "live"
    /\ steps < MaxSteps
    /\ steps' = steps + 1
    /\ \E r \in dump_state(db, block_number,
                           IF mode = "fork" THEN "Fork" ELSE "Memory") :
         /\ snap' = r
         /\ phase' = IF r.tag = "Ok" THEN "dumped" ELSE "live"
         /\ ret' = Ret("dump_state", "a1", 0, EmptyMap, r, "none")
    /\ prev' = Before
    /\ UNCHANGED <<mode, accounts, contracts, block_number,
                   basic_fetches, fetched, destructed, post_writes,
                   block_hashes, timestamp, clock, bridge, state,
                   fork_block_number>>

\* EvmMemory::default() followed by load_state(snap)
LoadState ==
    /\ phase = "dumped"
    /\ LET db2 == load_state(InMemoryDb_default, snap.val)
       IN /\ accounts' = db2.accounts
          /\ contracts' = db2.contracts
    /\ mode' = "memory"
    /\ block_number' = snap.val.block_num
    /\ phase' = "live"
    /\ ret' = Ret("load_state", "a1", 0, EmptyMap, Ok(0), "none")
    /\ prev' = Before
    /\ basic_fetches' = [a \in Address |-> 0]
    /\ fetched' = NoFetches
    /\ destructed' = [a \in Address |-> FALSE]
    /\ post_writes' = [a \in Address |-> EmptyMap]
    /\ block_hashes' = EmptyMap
    /\ UNCHANGED <<snap, steps, timestamp, clock, bridge, state,
                   fork_block_number>>

Next ==
    \/ \E a \in Address : Basic(a)
    \/ \E a \in Address, i \in Slot : Storage(a, i)
    \/ \E h \in CodeHash : CodeByHash(h)
    \/ Commit
    \/ \E a \in Address : CreateAccount(a)
    \/ DumpState
    \/ LoadState

Spec == Init /\ [][Next]_vars

\* ------------------------------------------------------------- the writes
\* The operations that write the store, with every kind of batch and with
\* the administrative inserts, in behaviours of at most MaxWrites operations.
MaxWrites == 2

WriteCommit == steps < MaxWrites /\ CommitOf(Batch \cup MixedBatch)

WriteBasic(a) == steps < MaxWrites /\ Basic(a)

WriteCreateAccount(a) == steps < MaxWrites /\ CreateAccount(a)

WriteInsertAccountInfo(a) == steps < MaxWrites /\ InsertAccountInfo(a)

WriteDumpState == steps < MaxWrites /\ DumpState

WriteNext ==
    \/ WriteCommit
    \/ \E a \in Address : WriteBasic(a)
    \/ \E a \in Address : WriteCreateAccount(a)
    \/ \E a \in Address : WriteInsertAccountInfo(a)
    \/ WriteDumpState
    \/ LoadState

WriteSpec == Init /\ [][WriteNext]_vars

\* ------------------------------------------------- one account of a fork
\* The reads and commits of one address and one slot of a fork, in
\* behaviours of at most MaxFetchSteps operations: long enough for a fetch,
\* a self-destruct, a later commit and a second read.
MaxFetchSteps == 5

\* the batches for the address: an ordinary touch, a self-destruct and a
\* creation that writes the slot
FetchBatch ==
    [{"a1"} -> {Entry(Eoa, {"Touched"}, EmptyMap),
                Entry(Eoa, {"Touched", "SelfDestructed"}, EmptyMap),
                Entry(Contract, {"Touched", "Created"}, [k \in {1} |-> 1])}]

FetchBasic == BasicWithin(MaxFetchSteps, "a1")

FetchStorage == StorageWithin(MaxFetchSteps, "a1", 1)

FetchCommit == CommitWithin(MaxFetchSteps, FetchBatch)

FetchNext == FetchBasic \/ FetchStorage \/ FetchCommit

FetchInit == Init /\ mode = "fork"

FetchSpec == FetchInit /\ [][FetchNext]_vars

\* ------------------------------------------------------ the generic BaseEvm
\* BaseEvm<DB> over a ForkDb (EvmFork) or an InMemoryDb (EvmMemory).  Its
\* field state is an Option: every method takes it with get_evm and has to
\* put it back before it returns.

\* the panic of get_evm
StateIsNone == [tag |-> "Panic", val |-> <<"EVM state is None">>]

\* BaseEvm::get_evm: self.state.take()
get_evm(st) ==
    [state |-> "None", result |-> IF st = "Some" THEN Ok(<<"Evm">>) ELSE StateIsNone]

\* BaseEvm::view_storage_slot(addr, slot): the ? returns on an error of
\* storage before the state is put back
view_storage_slot(d, m, st, addr, slot, fetch_ok) ==
    LET r == IF m = "fork" THEN ForkDb_storage(d, addr, slot, fetch_ok)
             ELSE InMemoryDb_storage(d, addr, slot)
    IN IF r.result.tag = "Err"
       THEN [db |-> r.db, fetch |-> r.fetch, state |-> get_evm(st).state,
             result |-> Err(<<"Error viewing storage slot">>)]
       ELSE [db |-> r.db, fetch |-> r.fetch, state |-> "Some", result |-> r.result]

\* BaseEvm::get_balance(caller) of the generic facade: the balance of the
\* account basic returns, zero when basic returns no account or an error
get_balance(d, m, caller, fetch_ok) ==
    LET r == IF m = "fork" THEN ForkDb_basic(d, caller, fetch_ok)
             ELSE InMemoryDb_basic(d, caller)
    IN [db |-> r.db,
        result |-> IF r.result.tag = "Ok" /\ r.result.val.some
                   THEN r.result.val.v.balance ELSE 0]

\* EvmMemory::dump_state / EvmFork::dump_state of the generic facade: the ?
\* after collect returns on a code_by_hash error before the state is put back
BaseEvm_dump_state(d, m, st, blknum) ==
    {[result |-> r, state |-> IF r.tag = "Err" THEN get_evm(st).state ELSE "Some"] :
        r \in dump_state(d, blknum, IF m = "fork" THEN "Fork" ELSE "Memory")}

\* one call of a method of the facade
Method ==
    /\ phase = "live"
    /\ steps < MaxSteps
    /\ steps' = steps + 1
    /\ prev' = Before
    /\ UNCHANGED <<mode, block_hashes, timestamp, clock, bridge, fork_block_number>>

\* the method's get_evm panics: nothing else changes
Panics(op) ==
    /\ Method
    /\ phase' = "panicked"
    /\ ret' = Ret(op, "a1", 0, EmptyMap, get_evm(state).result, "none")
    /\ UNCHANGED <<accounts, contracts, block_number, snap, state,
                   basic_fetches, fetched, destructed, post_writes>>

ViewStorageSlot(addr, slot) ==
    IF get_evm(state).result.tag = "Panic" THEN Panics("view_storage_slot")
    ELSE /\ Method
         /\ \E fetch_ok \in RemoteOutcome :
              LET r == view_storage_slot(db, mode, state, addr, slot, fetch_ok)
              IN /\ accounts' = r.db.accounts
                 /\ contracts' = r.db.contracts
                 /\ state' = r.state
                 /\ ret' = Ret("view_storage_slot", addr, slot, EmptyMap, r.result, r.fetch)
                 /\ fetched' = [fetched EXCEPT
                         ![addr][slot].ok = @ + (IF r.fetch = "ok" THEN 1 ELSE 0),
                         ![addr][slot].failed = @ + (IF r.fetch = "failed" THEN 1 ELSE 0)]
         /\ snap' = NoSnap
         /\ UNCHANGED <<phase, block_number, basic_fetches, destructed, post_writes>>

GetBalance(caller) ==
    IF get_evm(state).result.tag = "Panic" THEN Panics("get_balance")
    ELSE /\ Method
         /\ \E fetch_ok \in RemoteOutcome :
              LET r == get_balance(db, mode, caller, fetch_ok)
              IN /\ accounts' = r.db.accounts
                 /\ contracts' = r.db.contracts
                 /\ ret' = Ret("get_balance", caller, 0, EmptyMap, Ok(r.result),
                               IF mode = "fork" /\ caller \notin DOMAIN accounts
                               THEN (IF fetch_ok THEN "ok" ELSE "failed") ELSE "none")
                 /\ basic_fetches' = [basic_fetches EXCEPT
                         ![caller] = @ + (IF mode = "fork" /\ caller \notin DOMAIN accounts
                                          THEN 1 ELSE 0)]
         /\ state' = "Some"
         /\ snap' = NoSnap
         /\ UNCHANGED <<phase, block_number, fetched, destructed, post_writes>>

\* EvmFork::create_account / EvmMemory::create_account
BaseCreateAccount(caller) ==
    IF get_evm(state).result.tag = "Panic" THEN Panics("create_account")
    ELSE CreateAccount(caller)

\* EvmFork::dump_state / EvmMemory::dump_state
BaseDumpState ==
    IF get_evm(state).result.tag = "Panic" THEN Panics("dump_state")
    ELSE /\ Method
         /\ \E r \in BaseEvm_dump_state(db, mode, state, block_number) :
              /\ snap' = r.result
              /\ state' = r.state
              /\ ret' = Ret("dump_state", "a1", 0, EmptyMap, r.result, "none")
         /\ UNCHANGED <<phase, accounts, contracts, block_number,
                        basic_fetches, fetched, destructed, post_writes>>

\* EvmMemory::load_state(cache) with the snapshot dumped last
BaseLoadState ==
    /\ mode = "memory"
    /\ snap.tag = "Ok"
    /\ IF get_evm(state).result.tag = "Panic" THEN Panics("load_state")
       ELSE /\ Method
            /\ LET db2 == load_state(db, snap.val)
               IN /\ accounts' = db2.accounts
                  /\ contracts' = db2.contracts
            /\ block_number' = snap.val.block_num
            /\ state' = "Some"
            /\ ret' = Ret("load_state", "a1", 0, EmptyMap, Ok(0), "none")
            /\ UNCHANGED <<phase, snap, basic_fetches, fetched, destructed, post_writes>>

\* deploy, transfer and transact run evm.transact_commit(), call and simulate
\* run evm.transact(); all of them put the state back before they look at
\* the result
Commits(kind) == kind \in {"deploy", "transfer", "transact"}

MethodKind == {"deploy", "transfer", "transact", "call", "simulate"}

\* what the engine hands to commit for the caller of a successful transaction
CallerEntry ==
    {Entry(Eoa, {"Touched"}, EmptyMap),
     Entry(Contract, {"Touched", "Created"}, [k \in {1} |-> 1]),
     Entry(Eoa, {"Touched", "SelfDestructed"}, EmptyMap)}

\* the engine loads the caller with basic, runs, and transact_commit commits
\* the changes of a successful run
BaseEvm_run(d, m, kind, caller, fetch_ok, success, account) ==
    LET r == IF m = "fork" THEN ForkDb_basic(d, caller, fetch_ok)
             ELSE InMemoryDb_basic(d, caller)
        changes == [a \in {caller} |-> account]
    IN IF ~success THEN [db |-> r.db, state |-> "Some", changes |-> EmptyMap,
                         result |-> Err(<<"EVM error">>)]
       ELSE IF ~Commits(kind)
       THEN [db |-> r.db, state |-> "Some", changes |-> EmptyMap, result |-> Ok(0)]
       ELSE [db |-> IF m = "fork" THEN ForkDb_commit(r.db, changes, <<caller>>)
                    ELSE InMemoryDb_commit(r.db, changes, <<caller>>),
             state |-> "Some", changes |-> changes, result |-> Ok(0)]

Run(kind, caller) ==
    IF get_evm(state).result.tag = "Panic" THEN Panics(kind)
    ELSE /\ Method
         /\ \E fetch_ok \in RemoteOutcome, success \in BOOLEAN, e \in CallerEntry :
              LET r == BaseEvm_run(db, mode, kind, caller, fetch_ok, success,
                                   TxAccount(caller, e))
              IN /\ accounts' = r.db.accounts
                 /\ contracts' = r.db.contracts
                 /\ state' = r.state
                 /\ ret' = Ret(kind, caller, 0, r.changes, r.result, "none")
                 /\ destructed' = [a \in Address |->
                         IF a \in DOMAIN r.changes
                         THEN is_selfdestructed(r.changes[a]) \/ destructed[a]
                         ELSE destructed[a]]
                 /\ post_writes' = [a \in Address |->
                         IF a \in DOMAIN r.changes
                         THEN WritesAfter(post_writes[a], r.changes[a])
                         ELSE post_writes[a]]
         /\ basic_fetches' = [basic_fetches EXCEPT
                 ![caller] = @ + (IF mode = "fork" /\ caller \notin DOMAIN accounts
                                  THEN 1 ELSE 0)]
         /\ snap' = NoSnap
         /\ UNCHANGED <<phase, block_number, fetched>>

BaseNext ==
    \/ \E a \in Address, i \in Slot : ViewStorageSlot(a, i)
    \/ \E a \in Address : GetBalance(a)
    \/ \E a \in Address : BaseCreateAccount(a)
    \/ BaseDumpState
    \/ BaseLoadState
    \/ \E kind \in MethodKind, a \in Address : Run(kind, a)

BaseSpec == Init /\ [][BaseNext]_vars

\* ------------------------------------------------------ the backend facade
\* BaseEvm over a StorageBackend: the store of the active backend, its block
\* hashes, and the block number and timestamp that seed a transaction's
\* BlockEnv.  The operations take and return the backend b.
MaxInterval == 2

ADDRESS_ZERO == "a0"

backend ==
    [accounts |-> accounts, contracts |-> contracts, block_hashes |-> block_hashes,
     block_number |-> block_number, timestamp |-> timestamp, fork |-> mode = "fork"]

\* CreateFork { url, blocknumber: Option<u64> }, or no fork
CreateFork ==
    {[some |-> TRUE, blocknumber |-> Some(ForkBlock)],
     [some |-> TRUE, blocknumber |-> [some |-> FALSE, v |-> 0]],
     [some |-> FALSE, blocknumber |-> [some |-> FALSE, v |-> 0]]}

\* the latest block of the remote
LatestBlock == ForkBlock + 1

\* ForkDb::new: the block number the fork fetches at is the starting block
\* number, or the remote's latest block when none is given
ForkDb_new(starting_block_number) ==
    IF starting_block_number.some THEN starting_block_number.v ELSE LatestBlock

\* StorageBackend::new: block_number is fork.blocknumber.unwrap_or(0), or 0
StorageBackend_new(fork) ==
    [accounts |-> EmptyMap, contracts |-> contracts_default, block_hashes |-> EmptyMap,
     block_number |-> IF fork.some /\ fork.blocknumber.some THEN fork.blocknumber.v ELSE 0,
     timestamp |-> 0, fork |-> fork.some]

store(b) == [accounts |-> b.accounts, contracts |-> b.contracts]

with_store(b, d) == [b EXCEPT !.accounts = d.accounts, !.contracts = d.contracts]

\* StorageBackend::insert_account_info
StorageBackend_insert_account_info(b, address, i) ==
    with_store(b, IF b.fork THEN insert_account_info(store(b), address, i)
                  ELSE InMemoryDb_insert_account_info(store(b), address, i))

\* Database::basic for StorageBackend
StorageBackend_basic(b, address, fetch_ok) ==
    LET r == IF b.fork THEN ForkDb_basic(store(b), address, fetch_ok)
             ELSE InMemoryDb_basic(store(b), address)
    IN [b |-> with_store(b, r.db), result |-> r.result, fetch |-> r.fetch]

\* Database::block_hash for StorageBackend
StorageBackend_block_hash(b, number, outcome) ==
    LET r == IF b.fork THEN ForkDb_block_hash(b.block_hashes, number, outcome)
             ELSE InMemoryDb_block_hash(b.block_hashes, number)
    IN [b |-> [b EXCEPT !.block_hashes = r.block_hashes],
        result |-> r.result, fetch |-> r.fetch]

\* DatabaseCommit::commit that also starts a new block
StorageBackend_commit_mines_block(b, changes, order) ==
    [with_store(b, IF b.fork THEN ForkDb_commit(store(b), changes, order)
                   ELSE InMemoryDb_commit(store(b), changes, order))
     EXCEPT !.block_number = @ + 1]

\* DatabaseCommit::commit for StorageBackend
StorageBackend_commit(b, changes, order) ==
    with_store(b, IF b.fork THEN ForkDb_commit(store(b), changes, order)
                  ELSE InMemoryDb_commit(store(b), changes, order))

\* StorageBackend::update_block_info(interval)
update_block_info(b, interval) ==
    [b EXCEPT !.block_number = @ + 1, !.timestamp = @ + interval]

\* DatabaseRef::basic_ref for StorageBackend: a read that leaves the store as
\* it is.  On a miss a local-only backend has no account; a fork asks the
\* remote, which answers with the account ("ok"), with nothing ("none") or
\* fails ("failed").
basic_ref(b, address, outcome) ==
    IF address \in DOMAIN b.accounts THEN Ok(info(b.accounts[address]))
    ELSE IF ~b.fork \/ outcome = "none" THEN Ok(NoAccountInfo)
    ELSE IF outcome = "ok" THEN Ok(Some(fetch_basic_from_fork(address)))
    ELSE Err(GetAccount(address))

\* BaseEvm::create_account(user, amount)
BaseEvm_create_account(b, user, amount) ==
    StorageBackend_insert_account_info(b, user,
        [AccountInfo_default EXCEPT !.balance = IF amount.some THEN amount.v ELSE @])

\* BaseEvm::set_balance(address, amount)
BaseEvm_set_balance(b, address, amount, outcome) ==
    LET r == basic_ref(b, address, outcome)
        account == IF r.val.some THEN r.val.v ELSE AccountInfo_default
    IN IF r.tag = "Err" THEN [b |-> b, result |-> r]
       ELSE [b |-> StorageBackend_insert_account_info(b, address,
                        [account EXCEPT !.balance = amount]),
             result |-> Ok(0)]

\* BaseEvm::build_env with the block of the default environment
build_env_default_block(b, caller) ==
    [number |-> 0, timestamp |-> b.timestamp, caller |-> caller]

\* BaseEvm::build_env: the BlockEnv number and timestamp and the TxEnv caller
build_env(b, caller) ==
    [number |-> b.block_number, timestamp |-> b.timestamp, caller |-> caller]

\* the state the engine returns for a successful transaction: the caller,
\* and the called contract with one written slot or the deployed contract
TxState(b, env, kind) ==
    LET e == IF kind = "deploy"
             THEN Entry(Contract, {"Touched", "Created"}, [k \in {1} |-> 1])
             ELSE Entry(Contract, {"Touched"}, [k \in {1} |-> MaxVal])
        callee == [info |-> e.info, status |-> e.status,
                   storage |-> [k \in DOMAIN e.writes |->
                      [previous_or_original_value |->
                          IF k \in DOMAIN or_default(b.accounts, "a2").storage
                          THEN b.accounts["a2"].storage[k] ELSE 0,
                       present_value |-> e.writes[k]]]]
        sender == [info |-> Eoa, status |-> {"Touched"}, storage |-> EmptyMap]
    IN [a \in {env.caller, "a2"} |-> IF a = "a2" THEN callee ELSE sender]

\* the state the engine returns for a reverted or halted transaction: the
\* caller, charged and with its nonce advanced
RevertState(env) ==
    [a \in {env.caller} |-> [info |-> Eoa, status |-> {"Touched"}, storage |-> EmptyMap]]

\* StorageBackend::run_transact: the engine loads the caller, rejects the
\* transaction ("invalid") or loads the called account and executes; the
\* execution succeeds, reverts or halts
run_transact(b, env, kind, fetch_ok, outcome) ==
    LET r1 == StorageBackend_basic(b, env.caller, fetch_ok)
        r2 == IF kind = "deploy" THEN r1 ELSE StorageBackend_basic(r1.b, "a2", fetch_ok)
    IN IF outcome = "invalid"
       THEN [b |-> r1.b, result |-> Err(<<"backend failed while executing transaction">>)]
       ELSE [b |-> r2.b,
             result |-> Ok([result |-> outcome,
                            state |-> IF outcome = "success" THEN TxState(r2.b, env, kind)
                                      ELSE RevertState(env)])]

\* process_call_result: a revert or a halt bails, a success carries the state
process_call_result(result) ==
    IF result.result = "success" THEN Ok([state_changeset |-> Some(result.state)])
    ELSE Err(<<"bail", result.result>>)

\* BaseEvm::commit
BaseEvm_commit(b, result, order) ==
    IF result.state_changeset.some
    THEN StorageBackend_commit(b, result.state_changeset.v, order)
    ELSE b

\* the four operations, each committing the state of a successful execution
BaseEvm_transact_commit_all(b, kind, fetch_ok, outcome, order) ==
    LET caller == IF kind = "transact_call" THEN ADDRESS_ZERO ELSE "a1"
        env == build_env(b, caller)
        rt == run_transact(b, env, kind, fetch_ok, outcome)
        call_results == process_call_result(rt.result.val)
    IN IF rt.result.tag = "Err" THEN [b |-> rt.b, result |-> rt.result, env |-> env]
       ELSE IF call_results.tag = "Err"
       THEN [b |-> rt.b, result |-> call_results, env |-> env]
       ELSE [b |-> BaseEvm_commit(rt.b, call_results.val,
                                  IF caller = ADDRESS_ZERO THEN <<ADDRESS_ZERO, "a2">>
                                  ELSE <<"a1", "a2">>),
             result |-> call_results, env |-> env]

\* the operations committing the state the engine returned before they look
\* at the execution result
BaseEvm_transact_commit_first(b, kind, fetch_ok, outcome, order) ==
    LET caller == IF kind = "transact_call" THEN ADDRESS_ZERO ELSE "a1"
        env == build_env(b, caller)
        rt == run_transact(b, env, kind, fetch_ok, outcome)
        call_results == process_call_result(rt.result.val)
    IN IF rt.result.tag = "Err" THEN [b |-> rt.b, result |-> rt.result, env |-> env]
       ELSE IF call_results.tag = "Err"
       THEN [b |-> IF kind \in {"deploy", "transact_commit"}
                   THEN StorageBackend_commit(rt.b, rt.result.val.state, <<caller>>)
                   ELSE rt.b,
             result |-> call_results, env |-> env]
       ELSE [b |-> IF kind \in {"deploy", "transact_commit"}
                   THEN BaseEvm_commit(rt.b, call_results.val, order) ELSE rt.b,
             result |-> call_results, env |-> env]

\* deploy, transact_commit, transact_call and simulate: build_env,
\* run_transact, process_call_result and, for the first two, commit
BaseEvm_transact(b, kind, fetch_ok, outcome, order) ==
    LET caller == IF kind = "transact_call" THEN ADDRESS_ZERO ELSE "a1"
        env == build_env(b, caller)
        rt == run_transact(b, env, kind, fetch_ok, outcome)
        call_results == process_call_result(rt.result.val)
    IN IF rt.result.tag = "Err" THEN [b |-> rt.b, result |-> rt.result, env |-> env]
       ELSE IF call_results.tag = "Err"
       THEN [b |-> rt.b, result |-> call_results, env |-> env]
       ELSE [b |-> IF kind \in {"deploy", "transact_commit"}
                   THEN BaseEvm_commit(rt.b, call_results.val, order) ELSE rt.b,
             result |-> call_results, env |-> env]

\* StorageBackend::create_snapshot: the accounts with their code inline, the
\* block number and the source tag
create_snapshot(b) ==
    dump_state(store(b), b.block_number, IF b.fork THEN "Fork" ELSE "Memory")

\* the snapshot's timestamp field
snapshot_timestamp(b, snapshot) ==
    [block_num |-> snapshot.block_num, source |-> snapshot.source,
     accounts |-> snapshot.accounts, timestamp |-> b.timestamp]

\* StorageBackend::load_snapshot that leaves the block number of a new backend
load_snapshot_keep_block(b, snapshot) ==
    with_store(b, load_state(store(b), snapshot))

\* StorageBackend::load_snapshot
load_snapshot(b, snapshot) ==
    [with_store(b, load_state(store(b), snapshot))
     EXCEPT !.block_number = snapshot.block_num]

\* the timestamp a loaded snapshot sets
load_snapshot_timestamp(b, snapshot) ==
    [b EXCEPT !.timestamp = snapshot.timestamp]

\* BaseEvm::new_from_snapshot: a default backend loaded from the snapshot
new_from_snapshot(snapshot) ==
    load_snapshot_timestamp(
        load_snapshot(StorageBackend_new([some |-> FALSE,
                                          blocknumber |-> [some |-> FALSE, v |-> 0]]),
                      snapshot),
        snapshot)

\* --------------------------------------------------- the facade's actions
SetBackend(b) ==
    /\ accounts' = b.accounts
    /\ contracts' = b.contracts
    /\ block_hashes' = b.block_hashes
    /\ block_number' = b.block_number
    /\ timestamp' = b.timestamp

FacadeStep ==
    /\ phase = "live"
    /\ steps < MaxSteps
    /\ steps' = steps + 1
    /\ prev' = Before
    /\ UNCHANGED <<mode, basic_fetches, fetched, destructed, post_writes, bridge, state,
                   fork_block_number>>

\* BaseEvm::new(fork)
BlockInit ==
    \E fork \in CreateFork :
        LET b == StorageBackend_new(fork)
        IN /\ mode = IF b.fork THEN "fork" ELSE "memory"
           /\ accounts = b.accounts
           /\ contracts = b.contracts
           /\ block_hashes = b.block_hashes
           /\ block_number = b.block_number
           /\ timestamp = b.timestamp
           /\ phase = "live"
           /\ snap = NoSnap
           /\ ret = Ret("new", "a1", 0, EmptyMap, Ok(0), "none")
           /\ clock = NewClock(b.block_number, b.timestamp, FALSE)
           /\ prev = Before
           /\ basic_fetches = [a \in Address |-> 0]
           /\ fetched = NoFetches
           /\ destructed = [a \in Address |-> FALSE]
           /\ post_writes = [a \in Address |-> EmptyMap]
           /\ steps = 0
           /\ bridge = BridgeIdle
           /\ state = "Some"
           /\ fork_block_number = IF fork.some THEN ForkDb_new(fork.blocknumber) ELSE 0

Interval == {1, MaxInterval}

\* BaseEvm::update_block(interval)
UpdateBlock(interval) ==
    /\ FacadeStep
    /\ SetBackend(update_block_info(backend, interval))
    /\ ret' = [Ret("update_block", "a1", 0, EmptyMap, Ok(0), "none")
                EXCEPT !.interval = interval]
    /\ clock' = [clock EXCEPT !.calls = @ + 1, !.elapsed = @ + interval]
    /\ snap' = NoSnap
    /\ UNCHANGED phase

BlockNumber == {[over |-> FALSE, n |-> 1], [over |-> FALSE, n |-> 2], [over |-> TRUE, n |-> 0]}

\* how the remote answers the request for a block, where one is issued
BlockOutcome(number) ==
    IF mode = "fork" /\ number \notin DOMAIN block_hashes /\ ~number.over
    THEN {"ok", "failed", "missing"} ELSE {"ok"}

\* Database::block_hash(number); a panic ends the program
BlockHash(number) ==
    /\ FacadeStep
    /\ \E outcome \in BlockOutcome(number) :
         LET r == StorageBackend_block_hash(backend, number, outcome)
         IN /\ SetBackend(r.b)
            /\ ret' = [Ret("block_hash", "a1", 0, EmptyMap, r.result, r.fetch)
                        EXCEPT !.number = number]
            /\ phase' = IF r.result.tag = "Panic" THEN "panicked" ELSE "live"
    /\ snap' = NoSnap
    /\ UNCHANGED clock

\* BaseEvm::create_account(user, amount)
EvmCreateAccount(user) ==
    /\ FacadeStep
    /\ \E amount \in Amount :
         /\ SetBackend(BaseEvm_create_account(backend, user, amount))
         /\ ret' = Ret("create_account", user, 0, EmptyMap, Ok(amount), "none")
    /\ snap' = NoSnap
    /\ UNCHANGED <<phase, clock>>

\* how the remote answers the request for an account, where one is issued
AccountOutcome(address) ==
    IF mode = "fork" /\ address \notin DOMAIN accounts
    THEN {"ok", "none", "failed"} ELSE {"none"}

\* BaseEvm::set_balance(address, amount)
SetBalance(address) ==
    /\ FacadeStep
    /\ \E outcome \in AccountOutcome(address) :
         LET r == BaseEvm_set_balance(backend, address, MaxBalance, outcome)
         IN /\ SetBackend(r.b)
            /\ ret' = Ret("set_balance", address, 0, EmptyMap, r.result, "none")
    /\ snap' = NoSnap
    /\ UNCHANGED <<phase, clock>>

TransactKind == {"deploy", "transact_commit", "transact_call", "simulate"}

\* the iteration orders of the committed state; nothing is iterated when
\* nothing is committed
CommitOrders(kind, outcome) ==
    IF kind \in {"deploy", "transact_commit"} /\ outcome = "success"
    THEN Orders({"a1", "a2"}) ELSE {<<>>}

\* whether the remote answers the engine's account requests, where the
\* caller or the called account is not in the store
LoadOutcome(kind) ==
    IF mode = "fork"
        /\ {IF kind = "transact_call" THEN ADDRESS_ZERO ELSE "a1", "a2"} \ DOMAIN accounts # {}
    THEN BOOLEAN ELSE {TRUE}

\* BaseEvm::deploy, transact_commit, transact_call and simulate
Transact(kind) ==
    /\ FacadeStep
    /\ \E fetch_ok \in LoadOutcome(kind) :
       \E outcome \in {"invalid", "revert", "halt", "success"} :
       \E order \in CommitOrders(kind, outcome) :
         LET r == BaseEvm_transact(backend, kind, fetch_ok, outcome, order)
         IN /\ SetBackend(r.b)
            /\ ret' = [Ret(kind, "a1", 0, EmptyMap, r.result, outcome)
                        EXCEPT !.env = r.env]
    /\ snap' = NoSnap
    /\ UNCHANGED <<phase, clock>>

\* BaseEvm::create_snapshot; on success the snapshot is handed to
\* new_from_snapshot
CreateSnapshot ==
    /\ FacadeStep
    /\ \E r \in create_snapshot(backend) :
         /\ snap' = IF r.tag = "Ok" THEN Ok(snapshot_timestamp(backend, r.val)) ELSE r
         /\ phase' = IF r.tag = "Ok" THEN "dumped" ELSE "live"
         /\ ret' = Ret("create_snapshot", "a1", 0, EmptyMap, r, "none")
    /\ UNCHANGED <<accounts, contracts, block_hashes, block_number, timestamp, clock>>

\* BaseEvm::new_from_snapshot(snap)
NewFromSnapshot ==
    /\ phase = "dumped"
    /\ SetBackend(new_from_snapshot(snap.val))
    /\ mode' = "memory"
    /\ phase' = "live"
    /\ ret' = Ret("new_from_snapshot", "a1", 0, EmptyMap, Ok(0), "none")
    /\ prev' = Before
    /\ clock' = NewClock(snap.val.block_num, snap.val.timestamp, TRUE)
    /\ basic_fetches' = [a \in Address |-> 0]
    /\ fetched' = NoFetches
    /\ destructed' = [a \in Address |-> FALSE]
    /\ post_writes' = [a \in Address |-> EmptyMap]
    /\ UNCHANGED <<snap, steps, bridge, state,
                   fork_block_number>>

\* ---------------------------------------------------------- value transfer
\* the account the engine works on after Database::basic
loaded_info(r) ==
    IF r.result.tag = "Ok" /\ r.result.val.some THEN r.result.val.v
    ELSE AccountInfo_default

\* the state the engine returns for a call with empty data that moved value:
\* the caller pays value and its nonce is bumped, the called account
\* receives value, both are touched
TransferState(sender, receiver, caller, to, value) ==
    LET s1 == [sender EXCEPT !.balance = @ - value, !.nonce = @ + 1]
        r1 == IF to = caller THEN [s1 EXCEPT !.balance = @ + value]
              ELSE [receiver EXCEPT !.balance = @ + value]
    IN [a \in {caller, to} |->
          [info |-> IF a = to THEN r1 ELSE s1, status |-> {"Touched"},
           storage |-> EmptyMap]]

\* StorageBackend::run_transact for a call with empty data and a value: the
\* engine loads the caller and rejects the transaction when the caller has
\* code or a balance below the value (the gas price is zero); otherwise it
\* loads the called account, whose code, if any, accepts the value or reverts
run_transfer(b, env, to, value, fetch_ok, accept) ==
    LET r1 == StorageBackend_basic(b, env.caller, fetch_ok)
        sender == loaded_info(r1)
        r2 == StorageBackend_basic(r1.b, to, fetch_ok)
        receiver == loaded_info(r2)
    IN IF sender.code_hash # KECCAK_EMPTY \/ sender.balance < value
       THEN [b |-> r1.b, result |-> Err(<<"backend failed while executing transaction">>)]
       ELSE [b |-> r2.b,
             result |-> Ok([result |-> IF accept THEN "success" ELSE "revert",
                            state |-> IF accept
                                      THEN TransferState(sender, receiver, env.caller, to, value)
                                      ELSE EmptyMap])]

\* transfer that executes the transaction without committing its state
BaseEvm_transfer_no_commit(b, caller, to, value, fetch_ok, accept, order) ==
    LET env == build_env(b, caller)
        rt == run_transfer(b, env, to, value, fetch_ok, accept)
        call_results == process_call_result(rt.result.val)
    IN IF rt.result.tag = "Err" THEN [b |-> rt.b, result |-> rt.result]
       ELSE IF call_results.tag = "Err" THEN [b |-> rt.b, result |-> call_results]
       ELSE [b |-> rt.b, result |-> Ok(0)]

\* BaseEvm::transfer(caller, to, value): transact_commit with empty data
BaseEvm_transfer(b, caller, to, value, fetch_ok, accept, order) ==
    LET env == build_env(b, caller)
        rt == run_transfer(b, env, to, value, fetch_ok, accept)
        call_results == process_call_result(rt.result.val)
    IN IF rt.result.tag = "Err" THEN [b |-> rt.b, result |-> rt.result]
       ELSE IF call_results.tag = "Err" THEN [b |-> rt.b, result |-> call_results]
       ELSE [b |-> BaseEvm_commit(rt.b, call_results.val, order), result |-> Ok(0)]

\* whether the remote answers the engine's requests for the two accounts
TransferOutcome(caller, to) ==
    IF mode = "fork" /\ {caller, to} \ DOMAIN accounts # {} THEN BOOLEAN ELSE {TRUE}

\* what the code of the called account does with the value; an account
\* without code accepts it
Accepts(to, fetch_ok) ==
    IF loaded_info(StorageBackend_basic(backend, to, fetch_ok)).code_hash = KECCAK_EMPTY
    THEN {TRUE} ELSE BOOLEAN

\* BaseEvm::transfer(caller, to, value)
Transfer(caller, to) ==
    /\ FacadeStep
    /\ \E fetch_ok \in TransferOutcome(caller, to) :
       \E accept \in Accepts(to, fetch_ok) :
       \E order \in Orders({caller, to}) :
         LET r == BaseEvm_transfer(backend, caller, to, MaxBalance, fetch_ok, accept, order)
         IN /\ SetBackend(r.b)
            /\ ret' = [Ret("transfer", caller, MaxBalance, EmptyMap, r.result,
                            IF accept THEN "accept" ELSE "revert")
                        EXCEPT !.to = to]
    /\ snap' = NoSnap
    /\ UNCHANGED <<phase, clock>>

BlockNext ==
    \/ \E caller, to \in Address : Transfer(caller, to)
    \/ \E interval \in Interval : UpdateBlock(interval)
    \/ \E number \in BlockNumber : BlockHash(number)
    \/ \E user \in Address : EvmCreateAccount(user)
    \/ \E address \in Address : SetBalance(address)
    \/ \E kind \in TransactKind : Transact(kind)
    \/ CreateSnapshot
    \/ NewFromSnapshot

BlockSpec == BlockInit /\ [][BlockNext]_vars

\* ------------------------------------------------- the remote fetch bridge
\* ForkDb::block_on(f) runs the request f of a provider to completion on
\* behalf of a synchronous caller.  The caller is outside any runtime
\* ("none"), on the thread of a current-thread runtime or on a thread of a
\* multi-thread runtime.
Context == {"none", "current_thread", "multi_thread"}

\* the requests the fork backend hands to block_on
Request ==
    {"get_block_number"}
        \cup {"get_balance_" \o a : a \in Address}
        \cup {"get_storage_at_" \o a \o "_" \o ToString(i) : a \in Address, i \in Slot}
        \cup {"get_block_" \o ToString(n) : n \in 1..2}

\* what the provider's future resolves to: the remote's value for the
\* request, or a ProviderError
Answer(request) == {"value_of_" \o request, "ProviderError"}

\* block_on taking block_in_place under every runtime
block_on_route_in_place(context) ==
    IF context # "none" THEN "block_in_place" ELSE "transient_runtime"

\* block_on's match on Handle::try_current() and runtime_flavor()
block_on_route(context) ==
    IF context # "none"
    THEN IF context = "current_thread" THEN "scoped_thread" ELSE "block_in_place"
    ELSE "transient_runtime"

\* what tokio allows on the calling thread: block_in_place panics on a
\* current-thread runtime, Runtime::block_on panics on a thread that is
\* inside a runtime, and a spawned thread starts outside any runtime
route_allowed(route, context) ==
    IF route = "block_in_place" THEN context # "current_thread"
    ELSE IF route = "transient_runtime" THEN context = "none"
    ELSE TRUE

BridgeFrame ==
    UNCHANGED <<mode, accounts, contracts, block_number, phase, snap, ret, prev,
                basic_fetches, fetched, destructed, post_writes, steps,
                block_hashes, timestamp, clock, state,
                   fork_block_number>>

\* the backend calls block_on(f)
BridgeCall(request, context) ==
    /\ bridge.pc \in {"idle", "done"}
    /\ \E answer \in Answer(request) :
         bridge' = [BridgeIdle EXCEPT !.pc = "called", !.context = context,
                                      !.request = request, !.answer = answer]
    /\ BridgeFrame

\* the match of block_on: a scoped thread is spawned and the caller joins
\* it, or the caller's thread blocks on the future itself
BridgeDispatch ==
    /\ bridge.pc = "called"
    /\ LET route == block_on_route(bridge.context)
       IN bridge' =
            IF ~route_allowed(route, bridge.context)
            THEN [bridge EXCEPT !.pc = "panicked"]
            ELSE IF route = "scoped_thread"
            THEN [bridge EXCEPT !.pc = "running", !.thread = "worker", !.caller = "joining"]
            ELSE [bridge EXCEPT !.pc = "running", !.thread = "caller", !.caller = "blocking"]
    /\ BridgeFrame

\* the runtime of the thread that runs f drives it to completion
BridgeRun ==
    /\ bridge.pc = "running"
    /\ bridge' = [bridge EXCEPT !.pc = "finished", !.result = bridge.answer]
    /\ BridgeFrame

\* join().unwrap(), or the return of block_on / block_in_place
BridgeReturn ==
    /\ bridge.pc = "finished"
    /\ bridge' = [bridge EXCEPT !.pc = "done", !.caller = "running"]
    /\ BridgeFrame

BridgeStep == BridgeDispatch \/ BridgeRun \/ BridgeReturn

BridgeNext ==
    \/ \E request \in Request, context \in Context : BridgeCall(request, context)
    \/ BridgeDispatch
    \/ BridgeRun
    \/ BridgeReturn

\* ForkDb::new
BridgeInit == Init /\ mode = "fork"

\* a fork backend whose threads are scheduled fairly
BridgeSpec == BridgeInit /\ [][BridgeNext]_vars /\ WF_vars(BridgeStep)

\* ================================================================ claims

\* C1: in fork mode the remote account fetch for an address is issued at most
\* once; after basic(A) the address is in the store, and a basic(A) on an
\* address already in the store is answered from the store (the stored info,
\* no remote contact), whatever the remote would answer now.
C1_NoDuplicateFetch ==
    \A a \in Address :
        /\ basic_fetches[a] <= 1
        /\ (ret.op = "basic" /\ ret.addr = a) => a \in DOMAIN accounts
        /\ (prev.mode = "fork" /\ ret.op = "basic" /\ ret.addr = a
                /\ a \in DOMAIN prev.accounts)
            => /\ ret.fetch = "none"
               /\ ret.result = Ok(info(prev.accounts[a]))
               /\ accounts = prev.accounts

\* a second basic(A), answered from the store with the info fetched before
C1_Witness ==
    /\ mode = "fork"
    /\ ret.op = "basic"
    /\ ret.fetch = "none"
    /\ basic_fetches[ret.addr] = 1
    /\ ret.addr \in DOMAIN prev.accounts
    /\ ret.result = Ok(Some(fetch_basic_from_fork(ret.addr)))
    /\ fetch_basic_from_fork(ret.addr) # AccountInfo_default

\* the results the backend of the current store gives to a read issued now
\* (ok: the outcome of the remote request, should one be issued)
basic_now(a, ok) ==
    IF mode = "fork" THEN ForkDb_basic(db, a, ok) ELSE InMemoryDb_basic(db, a)

storage_now(a, i, ok) ==
    IF mode = "fork" THEN ForkDb_storage(db, a, i, ok) ELSE InMemoryDb_storage(db, a, i)

Destroyed(changes, a) ==
    a \in DOMAIN changes /\ is_touched(changes[a]) /\ is_selfdestructed(changes[a])

\* C2: after commit of a batch in which the touched account A is marked
\* self-destructed, A's record has no storage, the state NotExisting and the
\* default info; storage(A, s) is then zero for every slot and basic(A) a
\* non-existent account, both without a remote fetch, in either mode.
C2_SelfDestruct ==
    ret.op = "commit" =>
        \A a \in Address : Destroyed(ret.changes, a) =>
            /\ a \in DOMAIN accounts
            /\ accounts[a].storage = EmptyMap
            /\ accounts[a].account_state = "NotExisting"
            /\ accounts[a].info = AccountInfo_default
            /\ \A ok \in BOOLEAN :
                /\ basic_now(a, ok).result = Ok(NoAccountInfo)
                /\ basic_now(a, ok).fetch = "none"
                /\ \A i \in Slot :
                    /\ storage_now(a, i, ok).result = Ok(0)
                    /\ storage_now(a, i, ok).fetch = "none"

\* a fork account with a cached non-zero slot and a fetched balance-or-code
\* has just been self-destructed
C2_Witness ==
    /\ ret.op = "commit"
    /\ mode = "fork"
    /\ \E a \in Address :
        /\ Destroyed(ret.changes, a)
        /\ a \in DOMAIN prev.accounts
        /\ prev.accounts[a].info # AccountInfo_default
        /\ \E i \in DOMAIN prev.accounts[a].storage : prev.accounts[a].storage[i] # 0

Created(changes, a) ==
    /\ a \in DOMAIN changes
    /\ is_touched(changes[a])
    /\ ~is_selfdestructed(changes[a])
    /\ is_created(changes[a])

\* C3: when commit applies a touched, not self-destructed account B marked
\* created, B's state becomes StorageCleared and B's storage is exactly the
\* batch's slots with their present values: storage(B, s) is the batch value
\* for a batch slot and zero, without a fetch, for every other slot.
C3_NewAccountIsolation ==
    ret.op = "commit" =>
        \A b \in Address : Created(ret.changes, b) =>
            /\ b \in DOMAIN accounts
            /\ accounts[b].account_state = "StorageCleared"
            /\ DOMAIN accounts[b].storage = DOMAIN ret.changes[b].storage
            /\ \A i \in Slot, ok \in BOOLEAN :
                /\ storage_now(b, i, ok).fetch = "none"
                /\ storage_now(b, i, ok).result =
                    IF i \in DOMAIN ret.changes[b].storage
                    THEN Ok(ret.changes[b].storage[i].present_value)
                    ELSE Ok(0)

\* B held a slot outside the batch and a batch slot with another value
C3_Witness ==
    /\ ret.op = "commit"
    /\ \E b \in Address :
        /\ Created(ret.changes, b)
        /\ b \in DOMAIN prev.accounts
        /\ \E i \in DOMAIN prev.accounts[b].storage :
            \/ i \notin DOMAIN ret.changes[b].storage /\ prev.accounts[b].storage[i] # 0
            \/ /\ i \in DOMAIN ret.changes[b].storage
               /\ prev.accounts[b].storage[i] # ret.changes[b].storage[i].present_value

\* the last operation was storage(A, s) on a slot missing from the map of an
\* account that is in the store
SlotMiss ==
    /\ ret.op = "storage"
    /\ ret.addr \in DOMAIN prev.accounts
    /\ ret.index \notin DOMAIN prev.accounts[ret.addr].storage

\* C4: in both backends storage(A, s) on a slot missing from the map of an
\* account whose state is StorageCleared or NotExisting returns zero, issues
\* no remote fetch and leaves the store unchanged.
C4_ZeroDefaultAfterClear ==
    (SlotMiss /\ prev.accounts[ret.addr].account_state \in {"StorageCleared", "NotExisting"})
        => /\ ret.result = Ok(0)
           /\ ret.fetch = "none"
           /\ accounts = prev.accounts
           /\ contracts = prev.contracts

\* a fork read of a missing slot of a NotExisting account whose remote slot is
\* not zero
C4_Witness ==
    /\ SlotMiss
    /\ prev.mode = "fork"
    /\ prev.accounts[ret.addr].account_state = "NotExisting"
    /\ RemoteStorage(ret.addr, ret.index) # 0
    /\ ret.result = Ok(0)

\* C8: a fork basic(A) on an address missing from the store contacts the
\* remote and returns Ok: on success A is inserted with the fetched info, the
\* initial state and no storage, and that info is returned; on failure A is
\* inserted as the NotExisting sentinel and a non-existent account is returned.
\* A NotExisting record is left alone by every read, and a basic(A) on it
\* returns non-existent without contacting the remote.
C8_BasicMiss ==
    /\ (prev.mode = "fork" /\ ret.op = "basic" /\ ret.addr \notin DOMAIN prev.accounts)
        => /\ ret.fetch \in {"ok", "failed"}
           /\ ret.result.tag = "Ok"
           /\ accounts = Put(prev.accounts, ret.addr, accounts[ret.addr])
           /\ ret.fetch = "ok" =>
                /\ accounts[ret.addr] =
                     [info |-> fetch_basic_from_fork(ret.addr),
                      account_state |-> "None", storage |-> EmptyMap]
                /\ ret.result = Ok(Some(fetch_basic_from_fork(ret.addr)))
           /\ ret.fetch = "failed" =>
                /\ accounts[ret.addr] = new_not_existing
                /\ ret.result = Ok(NoAccountInfo)
    /\ \A a \in DOMAIN prev.accounts :
        (prev.mode = "fork" /\ prev.accounts[a].account_state = "NotExisting"
            /\ ret.op \in {"basic", "storage", "dump_state"})
        => /\ accounts[a] = prev.accounts[a]
           /\ (ret.op = "basic" /\ ret.addr = a)
                => ret.result = Ok(NoAccountInfo) /\ ret.fetch = "none"

\* the sentinel of a failed fetch, read again by basic
C8_Witness ==
    /\ mode = "fork"
    /\ ret.op = "basic"
    /\ ret.addr \in DOMAIN prev.accounts
    /\ prev.accounts[ret.addr] = new_not_existing
    /\ basic_fetches[ret.addr] = 1
    /\ ret.result = Ok(NoAccountInfo)
    /\ fetch_basic_from_fork(ret.addr) # AccountInfo_default

\* C9: a fork storage(A, s) on a slot missing from the map of an account whose
\* state is neither StorageCleared nor NotExisting contacts the remote: a
\* successful fetch is stored in A's map and returned; a failed fetch returns
\* the error GetStorage(A, s) and leaves the store unchanged, so that the same
\* read issued again fetches again.
C9_StorageMiss ==
    (prev.mode = "fork" /\ SlotMiss
        /\ prev.accounts[ret.addr].account_state \notin {"StorageCleared", "NotExisting"})
    => /\ ret.fetch \in {"ok", "failed"}
       /\ contracts = prev.contracts
       /\ ret.fetch = "ok" =>
            /\ ret.result = Ok(RemoteStorage(ret.addr, ret.index))
            /\ accounts = [prev.accounts EXCEPT ![ret.addr].storage =
                                Put(@, ret.index, RemoteStorage(ret.addr, ret.index))]
       /\ ret.fetch = "failed" =>
            /\ ret.result = Err(GetStorage(ret.addr, ret.index))
            /\ accounts = prev.accounts
            /\ storage_now(ret.addr, ret.index, TRUE).fetch = "ok"

\* a slot fetched successfully after an earlier fetch of it had failed
C9_Witness ==
    /\ mode = "fork"
    /\ SlotMiss
    /\ ret.fetch = "ok"
    /\ fetched[ret.addr][ret.index].failed >= 1
    /\ ret.result.val # 0

\* C10: a fork storage(A, s) for an address missing from the store returns the
\* error GetAccount(A), contacts no remote and inserts nothing; an address
\* enters a fork store only by basic, commit or create_account.
C10_StorageNeedsAccount ==
    /\ (prev.mode = "fork" /\ ret.op = "storage" /\ ret.addr \notin DOMAIN prev.accounts)
        => /\ ret.result = Err(GetAccount(ret.addr))
           /\ ret.fetch = "none"
           /\ accounts = prev.accounts
           /\ contracts = prev.contracts
    /\ (mode = "fork" /\ DOMAIN accounts # DOMAIN prev.accounts)
        => ret.op \in {"basic", "commit", "create_account"}

\* storage on an address the fork store does not hold, with a non-zero remote slot
C10_Witness ==
    /\ mode = "fork"
    /\ ret.op = "storage"
    /\ ret.addr \notin DOMAIN prev.accounts
    /\ RemoteStorage(ret.addr, ret.index) # 0
    /\ ret.result.tag = "Err"

\* AccountInfo's equality compares balance, nonce and code hash
same_basic(r1, r2) ==
    /\ r1.tag = r2.tag
    /\ r1.val.some = r2.val.some
    /\ r1.val.some =>
        /\ r1.val.v.balance = r2.val.v.balance
        /\ r1.val.v.nonce = r2.val.v.nonce
        /\ r1.val.v.code_hash = r2.val.v.code_hash

\* the reads of the store d of a backend in mode m (remote requests succeed)
basic_of(d, m, a) ==
    IF m = "fork" THEN ForkDb_basic(d, a, TRUE).result ELSE InMemoryDb_basic(d, a).result

storage_of(d, m, a, i) ==
    IF m = "fork" THEN ForkDb_storage(d, a, i, TRUE).result
    ELSE InMemoryDb_storage(d, a, i).result

code_of(d, a) == code_by_hash(d, d.accounts[a].info.code_hash)

\* C5: after the exported snapshot of a store is imported into a fresh local
\* store, basic(A), storage(A, s) and the code lookup of A's code hash return
\* in the new store what they returned in the original, for every account A
\* of the snapshot and every slot s.
C5_SnapshotRoundTrip ==
    ret.op = "load_state" =>
        \A a \in DOMAIN snap.val.accounts :
            /\ same_basic(basic_of(prev, prev.mode, a), basic_of(db, mode, a))
            /\ code_of(prev, a) = code_of(db, a)
            /\ \A i \in Slot :
                storage_of(prev, prev.mode, a, i) = storage_of(db, mode, a, i)

\* C6: after a snapshot import every imported account has the cache state
\* StorageCleared, and storage(A, s) of an imported account on a slot the
\* snapshot does not list returns zero.
C6_ImportedStorageCleared ==
    ret.op = "load_state" =>
        \A a \in DOMAIN snap.val.accounts :
            /\ accounts[a].account_state = "StorageCleared"
            /\ \A i \in Slot \ DOMAIN snap.val.accounts[a].storage :
                storage_now(a, i, TRUE).result = Ok(0)

\* C7: once a commit has self-destructed A, a storage(A, s) that returns a
\* value returns zero or the value a later commit wrote to s.
C7_NoStaleStorage ==
    (ret.op = "storage" /\ destructed[ret.addr] /\ ret.result.tag = "Ok")
        => \/ ret.result.val = 0
           \/ /\ ret.index \in DOMAIN post_writes[ret.addr]
              /\ ret.result.val = post_writes[ret.addr][ret.index]

\* C11: code_by_hash(h) is answered from the code store alone, in both
\* backends: an absent h gives the error MissingCode(h), a present h the stored
\* bytecode; no remote is contacted and the store is left as it was.
C11_CodeByHash ==
    ret.op = "code_by_hash"
        => /\ ret.result = (IF ret.hash \in DOMAIN prev.contracts
                            THEN Ok(prev.contracts[ret.hash])
                            ELSE Err(MissingCode(ret.hash)))
           /\ ret.fetch = "none"
           /\ accounts = prev.accounts
           /\ contracts = prev.contracts

\* a miss in a fork store whose remote holds code with that hash
C11_Witness ==
    /\ mode = "fork"
    /\ ret.op = "code_by_hash"
    /\ ret.hash = hash_slow(RemoteCode("a1"))
    /\ ret.hash \notin DOMAIN contracts
    /\ ret.result = Err(MissingCode(ret.hash))

\* C12: after a successful fork basic(A) fetch that returns an account with
\* code hash h, code_by_hash(h) succeeds and returns that account's bytecode.
C12_CodeStagedByBasic ==
    (mode = "fork" /\ ret.op = "basic" /\ ret.fetch = "ok" /\ ret.result.val.some)
        => code_by_hash(db, ret.result.val.v.code_hash) = Ok(ret.result.val.v.code)

\* C14: a local-only basic(A) for an address absent from the store returns a
\* non-existent account and leaves the store (and so a later snapshot) as it was.
C14_LocalBasicMissPure ==
    (prev.mode = "memory" /\ ret.op = "basic" /\ ret.addr \notin DOMAIN prev.accounts)
        => /\ ret.result = Ok(NoAccountInfo)
           /\ accounts = prev.accounts
           /\ contracts = prev.contracts
           /\ dump_state(db, block_number, "Memory")
                = dump_state([accounts |-> prev.accounts, contracts |-> prev.contracts],
                             block_number, "Memory")

\* C15: a local-only storage(A, s) with no value stored for (A, s) returns
\* Ok(0), whether A is absent or present in any cache state.
C15_LocalStorageMissZero ==
    (prev.mode = "memory" /\ ret.op = "storage"
        /\ (ret.addr \in DOMAIN prev.accounts
                => ret.index \notin DOMAIN prev.accounts[ret.addr].storage))
        => ret.result = Ok(0)

\* a touched account of the batch that is neither self-destructed nor created
Updated(changes, a) ==
    /\ a \in DOMAIN changes
    /\ is_touched(changes[a])
    /\ ~is_selfdestructed(changes[a])
    /\ ~is_created(changes[a])

StorageCleared(accs, a) ==
    a \in DOMAIN accs /\ accs[a].account_state = "StorageCleared"

\* C16: for a touched, not self-destructed, not created account, commit keeps
\* the state StorageCleared if it was StorageCleared and otherwise sets
\* Touched; a StorageCleared account stays StorageCleared under every
\* operation on the store until a commit self-destructs it, and no storage
\* read of it contacts the remote.
C16_CommitStateTagging ==
    /\ ret.op = "commit" =>
        \A a \in Address : Updated(ret.changes, a) =>
            /\ a \in DOMAIN accounts
            /\ accounts[a].account_state =
                IF StorageCleared(prev.accounts, a) THEN "StorageCleared" ELSE "Touched"
    /\ \A a \in Address :
        (StorageCleared(prev.accounts, a) /\ ret.op # "load_state"
            /\ ~(ret.op = "commit" /\ Destroyed(ret.changes, a)))
            => StorageCleared(accounts, a)
    /\ (ret.op = "storage" /\ StorageCleared(prev.accounts, ret.addr))
        => ret.fetch = "none" /\ ret.result.tag = "Ok"

\* a fork commit updates a StorageCleared account and writes a slot
C16_Witness ==
    /\ mode = "fork"
    /\ ret.op = "commit"
    /\ \E a \in Address :
        /\ Updated(ret.changes, a)
        /\ StorageCleared(prev.accounts, a)
        /\ DOMAIN ret.changes[a].storage # {}
        /\ StorageCleared(accounts, a)

\* C17: for a touched, not self-destructed, not created account A, after
\* commit each slot of the batch holds the batch's present value and every
\* other slot of A keeps the value it had before the commit.
C17_CommitStorageOverlay ==
    ret.op = "commit" =>
        \A a \in Address : Updated(ret.changes, a) =>
            LET old == or_default(prev.accounts, a).storage
                writes == ret.changes[a].storage
            IN /\ a \in DOMAIN accounts
               /\ DOMAIN accounts[a].storage = DOMAIN old \cup DOMAIN writes
               /\ \A k \in DOMAIN writes :
                    accounts[a].storage[k] = writes[k].present_value
               /\ \A k \in DOMAIN old \ DOMAIN writes :
                    accounts[a].storage[k] = old[k]

\* the batch overwrites a slot whose original value differs from the present
\* one, and the account holds another, non-zero slot
C17_Witness ==
    /\ ret.op = "commit"
    /\ \E a \in Address :
        /\ Updated(ret.changes, a)
        /\ a \in DOMAIN prev.accounts
        /\ \E k \in DOMAIN ret.changes[a].storage :
            /\ k \in DOMAIN prev.accounts[a].storage
            /\ ret.changes[a].storage[k].previous_or_original_value
                 # ret.changes[a].storage[k].present_value
            /\ accounts[a].storage[k] # prev.accounts[a].storage[k]
        /\ \E k \in DOMAIN prev.accounts[a].storage \ DOMAIN ret.changes[a].storage :
            accounts[a].storage[k] # 0

\* C13: a fork block_hash(n) whose fetch succeeds stores the hash, and every
\* later block_hash(n) returns the stored hash without contacting the remote;
\* a failed fetch returns GetBlockHash(n) and stores nothing.
C13_BlockHashCached ==
    /\ (prev.mode = "fork" /\ ret.op = "block_hash") =>
        /\ ret.number \in DOMAIN prev.block_hashes
            => /\ ret.result = Ok(prev.block_hashes[ret.number])
               /\ ret.fetch = "none"
               /\ block_hashes = prev.block_hashes
        /\ ret.fetch = "ok"
            => /\ ret.number \notin DOMAIN prev.block_hashes
               /\ ret.result = Ok(RemoteBlockHash(ret.number.n))
               /\ block_hashes = Put(prev.block_hashes, ret.number, ret.result.val)
        /\ ret.fetch = "failed"
            => /\ ret.result = Err(GetBlockHash(ret.number))
               /\ block_hashes = prev.block_hashes
    /\ ret.op # "new_from_snapshot"
        => \A n \in DOMAIN prev.block_hashes :
            n \in DOMAIN block_hashes /\ block_hashes[n] = prev.block_hashes[n]

\* block_hash(n) answered from the store after an earlier fetch
C13_Witness ==
    /\ mode = "fork"
    /\ ret.op = "block_hash"
    /\ ~ret.number.over
    /\ ret.number \in DOMAIN prev.block_hashes
    /\ ret.fetch = "none"
    /\ ret.result = Ok(RemoteBlockHash(ret.number.n))

\* C18: each advance_block(interval) adds exactly 1 to the block number and
\* interval to the timestamp, so k calls from block N and timestamp T give
\* N + k and T + i1 + ... + ik, and a transaction executed next sees them.
C18_BlockAdvance ==
    /\ ret.op = "update_block"
        => /\ block_number = prev.block_number + 1
           /\ timestamp = prev.timestamp + ret.interval
    /\ block_number = clock.block0 + clock.calls
    /\ timestamp = clock.ts0 + clock.elapsed
    /\ ret.op \in TransactKind
        => /\ ret.env.number = clock.block0 + clock.calls
           /\ ret.env.timestamp = clock.ts0 + clock.elapsed

\* a transaction executed after two advances with different intervals
C18_Witness ==
    /\ ret.op \in TransactKind
    /\ ret.result.tag = "Ok"
    /\ clock.calls = 2
    /\ clock.elapsed = 1 + MaxInterval
    /\ ret.env.number = clock.block0 + 2

\* C19: only advance_block and a snapshot import change the block number or
\* the timestamp; create_account, set_balance, deploy, transact_commit,
\* transact_call, simulate, reads and snapshot export leave both as they
\* were, and advance_block never decreases either.
C19_BlockMetaCallerDriven ==
    /\ ret.op \notin {"update_block", "new_from_snapshot"}
        => block_number = prev.block_number /\ timestamp = prev.timestamp
    /\ ret.op = "update_block"
        => block_number >= prev.block_number /\ timestamp >= prev.timestamp

\* a committed transaction that changed the store of an advanced facade
C19_Witness ==
    /\ ret.op = "transact_commit"
    /\ ret.result.tag = "Ok"
    /\ accounts # prev.accounts
    /\ block_number > clock.block0
    /\ timestamp > 0

C21_FreshLocalBlockOne ==
    (ret.op \in TransactKind /\ mode = "memory" /\ ~clock.imported /\ clock.calls = 0)
        => ret.env.number = 1

\* C22: import is idempotent: importing the snapshot again into the store
\* it was just imported into leaves the accounts, their storage and cache
\* states, the code store and the block number as the first import made them.
C22_ImportIdempotent ==
    ret.op = "load_state" =>
        /\ load_state(db, snap.val) = db
        /\ snap.val.block_num = block_number

\* an imported snapshot with a funded account, a contract and a stored slot
C22_Witness ==
    /\ ret.op = "load_state"
    /\ \E a \in DOMAIN accounts : accounts[a].info.balance > 0
    /\ \E a \in DOMAIN accounts : accounts[a].storage # EmptyMap
    /\ hash_slow("c1") \in DOMAIN contracts

\* C23: create_account(A, amount) overwrites any existing account: after it
\* get_balance(A) returns amount, or zero when amount is None, also when A
\* was read while absent, recorded NotExisting or self-destructed before.
C23_CreateAccountOverwrites ==
    ret.op = "create_account" =>
        get_balance(db, mode, ret.addr, TRUE).result
            = (IF ret.result.val.some THEN ret.result.val.v ELSE 0)

\* BaseEvm::get_balance(caller): the balance of the account basic_ref
\* returns, zero when it returns no account
BaseEvm_get_balance(b, caller, outcome) ==
    LET r == basic_ref(b, caller, outcome)
    IN IF r.tag = "Err" THEN r
       ELSE Ok(IF r.val.some THEN r.val.v.balance ELSE 0)

PrevBackend ==
    [accounts |-> prev.accounts, contracts |-> prev.contracts,
     block_hashes |-> prev.block_hashes, block_number |-> prev.block_number,
     timestamp |-> prev.timestamp, fork |-> prev.mode = "fork"]

\* get_balance(a) of a local-only backend b
Bal(b, a) == BaseEvm_get_balance(b, a, "none").val

TotalBalance(b) == Bal(b, ADDRESS_ZERO) + Bal(b, "a1") + Bal(b, "a2")

TransferRejected ==
    LET i == basic_ref(PrevBackend, ret.addr, "none").val
    IN \/ Bal(PrevBackend, ret.addr) < ret.index
       \/ i.some /\ i.v.code_hash # KECCAK_EMPTY
       \/ ret.fetch = "revert"

C27_NoPanic ==
    /\ phase # "panicked"
    /\ ret.op = "block_hash" =>
        /\ ret.result.tag \in {"Ok", "Err"}
        /\ ret.fetch \in {"failed", "missing"} => ret.result = Err(GetBlockHash(ret.number))

\* the safety part of C28
BridgeSafe ==
    /\ bridge.pc # "panicked"
    /\ bridge.pc = "done" => bridge.result = bridge.answer
    /\ (bridge.pc \in {"running", "finished"} /\ bridge.context = "current_thread")
        => bridge.thread = "worker" /\ bridge.caller = "joining"

\* C28: for the same request and the same remote answer block_on returns the
\* same result (the answer) outside any runtime, inside a current-thread
\* runtime and inside a multi-thread runtime; inside a current-thread runtime
\* the request runs on a separate worker thread and the caller only joins
\* that worker; every call completes.
C28_BridgeEquivalence ==
    /\ []BridgeSafe
    /\ (bridge.pc = "called") ~> (bridge.pc = "done")

\* a call from inside a current-thread runtime that returned a ProviderError
C28_Witness ==
    /\ bridge.pc = "done"
    /\ bridge.context = "current_thread"
    /\ bridge.thread = "worker"
    /\ bridge.result = "ProviderError"

\* C29: the two backends implement the same write contract: from equal
\* account and code stores, commit of the same batch gives equal account
\* records, storage maps, cache states and code stores in InMemoryDb and in
\* ForkDb, and basic and storage of a cached key return the same in both.
C29_BackendEquivalence ==
    /\ ret.op = "commit" =>
        \A order \in Orders(DOMAIN ret.changes) :
            /\ ForkDb_commit(prev, ret.changes, order).accounts = accounts
            /\ ForkDb_commit(prev, ret.changes, order).contracts = contracts
            /\ InMemoryDb_commit(prev, ret.changes, order).accounts = accounts
            /\ InMemoryDb_commit(prev, ret.changes, order).contracts = contracts
    /\ \A a \in DOMAIN accounts :
        /\ ForkDb_basic(db, a, TRUE).result = InMemoryDb_basic(db, a).result
        /\ ForkDb_basic(db, a, TRUE).db = InMemoryDb_basic(db, a).db
        /\ \A i \in DOMAIN accounts[a].storage :
            /\ ForkDb_storage(db, a, i, TRUE).result = InMemoryDb_storage(db, a, i).result
            /\ ForkDb_storage(db, a, i, TRUE).db = InMemoryDb_storage(db, a, i).db

\* a commit that changed a stored account which has a cached slot
C29_Witness ==
    /\ ret.op = "commit"
    /\ \E a \in DOMAIN prev.accounts \cap DOMAIN ret.changes :
        /\ accounts[a] # prev.accounts[a]
        /\ accounts[a].info # prev.accounts[a].info
        /\ accounts[a].storage # EmptyMap

\* the infos insert_contract can be handed: any code under any hash
AnyInfo ==
    {AccountInfo_new(0, 0, h, c) :
        h \in {KECCAK_EMPTY, B256_ZERO, hash_slow("c1")}, c \in Bytecode \cup {None}}

\* C30: the code store is append-only: the empty-code hash and the all-zero
\* hash always map to empty bytecode; no operation changes or removes the
\* mapping of a hash, a snapshot import keeps the mappings it shares with the
\* exporting store, and inserting under a hash that is present is a no-op.
C30_CodeStoreAppendOnly ==
    /\ \A h \in {KECCAK_EMPTY, B256_ZERO} :
        h \in DOMAIN contracts /\ contracts[h] = EmptyCode
    /\ ret.op # "load_state" =>
        \A h \in DOMAIN prev.contracts :
            h \in DOMAIN contracts /\ contracts[h] = prev.contracts[h]
    /\ ret.op = "load_state" =>
        \A h \in DOMAIN prev.contracts \cap DOMAIN contracts :
            contracts[h] = prev.contracts[h]
    /\ \A i \in AnyInfo : \A h \in DOMAIN contracts :
        /\ h \in DOMAIN insert_contract(contracts, i).contracts
        /\ insert_contract(contracts, i).contracts[h] = contracts[h]
        /\ h \in DOMAIN InMemoryDb_insert_contract(contracts, i).contracts
        /\ InMemoryDb_insert_contract(contracts, i).contracts[h] = contracts[h]

\* a commit that inserts a contract whose hash the code store already holds
C30_Witness ==
    /\ ret.op = "commit"
    /\ hash_slow("c1") \in DOMAIN prev.contracts
    /\ \E a \in DOMAIN ret.changes :
        /\ is_touched(ret.changes[a])
        /\ ~is_selfdestructed(ret.changes[a])
        /\ ret.changes[a].info.code_hash = hash_slow("c1")
    /\ contracts = prev.contracts

\* what C31 says of one upsert: from the store d, insert_account_info(a, i)
\* gave the store e
UpsertFrame(d, e, a, i) ==
    /\ DOMAIN e.accounts = DOMAIN d.accounts \cup {a}
    /\ \A b \in DOMAIN d.accounts \ {a} : e.accounts[b] = d.accounts[b]
    /\ e.accounts[a].storage = or_default(d.accounts, a).storage
    /\ e.accounts[a].account_state = or_default(d.accounts, a).account_state
    /\ e.accounts[a].info.balance = i.balance
    /\ e.accounts[a].info.nonce = i.nonce
    /\ e.accounts[a].info.code = i.code
    /\ \A h \in DOMAIN d.contracts :
        h \in DOMAIN e.contracts /\ e.contracts[h] = d.contracts[h]
    /\ \A h \in DOMAIN e.contracts \ DOMAIN d.contracts :
        /\ i.code # None /\ ~is_empty(i.code)
        /\ e.contracts[h] = i.code
        /\ e.accounts[a].info.code_hash = h

\* C31: insert_account_info replaces only the account metadata: the
\* address's storage map is preserved slot for slot, other accounts are
\* untouched, and the code is registered under its hash only if that hash is
\* not yet in the code store.
C31_UpsertFrame ==
    /\ ret.op = "create_account" =>
        UpsertFrame(prev, db, ret.addr,
                    [AccountInfo_default EXCEPT
                        !.balance = IF ret.result.val.some THEN ret.result.val.v ELSE @])
    /\ \A a \in Address : \A i \in AnyInfo :
        /\ UpsertFrame(db, insert_account_info(db, a, i), a, i)
        /\ UpsertFrame(db, InMemoryDb_insert_account_info(db, a, i), a, i)

\* create_account on an account that holds storage and another balance
C31_Witness ==
    /\ ret.op = "create_account"
    /\ ret.addr \in DOMAIN prev.accounts
    /\ prev.accounts[ret.addr].storage # EmptyMap
    /\ accounts[ret.addr].info # prev.accounts[ret.addr].info
    /\ accounts[ret.addr].storage = prev.accounts[ret.addr].storage

\* commit(changes) of the backend in mode m, iterating in the given order
commit_of(d, m, changes, order) ==
    IF m = "fork" THEN ForkDb_commit(d, changes, order)
    ELSE InMemoryDb_commit(d, changes, order)

\* C32: commit is order-independent: the store after commit(batch) is the
\* same for every order in which the batch's accounts are processed, and so
\* is the snapshot exported from it.
C32_CommitOrderIndependent ==
    ret.op = "commit" =>
        \A order \in Orders(DOMAIN ret.changes) :
            LET d == commit_of(prev, mode, ret.changes, order)
            IN /\ d.accounts = accounts
               /\ d.contracts = contracts
               /\ dump_state(d, block_number, mode) = dump_state(db, block_number, mode)

\* a two-account commit with a touched and an untouched account
C32_Witness ==
    /\ ret.op = "commit"
    /\ DOMAIN ret.changes = Address
    /\ \E a \in Address : ~is_touched(ret.changes[a])
    /\ \E a \in Address : is_touched(ret.changes[a])
    /\ accounts # prev.accounts

\* C33: snapshot export is total: in every reachable state dump_state returns
\* a snapshot and never fails with MissingCode, i.e. every stored account
\* carries its code inline or has a code hash that is in the code store.
C33_ExportTotal ==
    /\ \A a \in DOMAIN accounts : dump_code(db, accounts[a]).tag = "Ok"
    /\ ret.op = "dump_state" => ret.result.tag = "Ok"

\* C34: the generic BaseEvm stays usable: after any public method returns,
\* Ok or Err, its state is present again, and no call reaches the panic
\* "EVM state is None".
C34_StateRestored ==
    /\ state = "Some"
    /\ phase # "panicked"

C36_StorageFetchedOnce ==
    \A a \in Address : \A i \in Slot : fetched[a][i].ok <= 1

\* C37: all remote account and storage fetches of one ForkDb use the block
\* number fixed at construction: no read, commit or administrative insert
\* changes the block number of the fork, and every request issued by basic
\* and storage carries it.
C37_FetchBlockFixed ==
    /\ mode = "fork" => block_number = ForkBlock
    /\ (ret.op \in {"basic", "storage"} /\ ret.fetch \in {"ok", "failed"})
        => ret.number = [over |-> FALSE, n |-> ForkBlock]

\* a slot fetched after a fetch of the account and one more operation
C37_Witness ==
    /\ mode = "fork"
    /\ ret.op = "storage"
    /\ ret.fetch = "ok"
    /\ steps >= 3
    /\ basic_fetches[ret.addr] = 1
    /\ ret.number.n = ForkBlock

\* C38: in Fork mode the block number recorded in an exported snapshot, and
\* used as the facade's current block number, is the block number the fork
\* fetches remote state at, for a fork created at an explicit block and for
\* one created at the latest block (before any advance_block).
C38_SnapshotAtFetchBlock ==
    (mode = "fork" /\ ret.op = "create_snapshot" /\ snap.tag = "Ok" /\ clock.calls = 0)
        => /\ snap.val.block_num = fork_block_number
           /\ block_number = fork_block_number

\* the entries of a batch that are marked touched
TouchedOnly(changes) ==
    [a \in {x \in DOMAIN changes : "Touched" \in changes[x].status} |-> changes[a]]

\* C39: commit ignores untouched accounts: an account of the batch that is
\* not marked touched keeps its record, storage and cache state, gets no
\* record if it had none, and adds nothing to the code store, also when its
\* entry is marked self-destructed or created or carries storage writes:
\* the store after the commit is the store after the commit of the batch's
\* touched entries alone.
C39_UntouchedIgnored ==
    ret.op = "commit" =>
        /\ \A a \in DOMAIN ret.changes \ DOMAIN TouchedOnly(ret.changes) :
            IF a \in DOMAIN prev.accounts
            THEN a \in DOMAIN accounts /\ accounts[a] = prev.accounts[a]
            ELSE a \notin DOMAIN accounts
        /\ \A order \in Orders(DOMAIN TouchedOnly(ret.changes)) :
            LET d == commit_of(prev, mode, TouchedOnly(ret.changes), order)
            IN d.accounts = accounts /\ d.contracts = contracts
        /\ TouchedOnly(ret.changes) = EmptyMap => contracts = prev.contracts

\* a commit of a touched account and of an untouched one that is marked
\* self-destructed, carries a write and has a record with other contents
C39_Witness ==
    /\ ret.op = "commit"
    /\ \E a \in DOMAIN ret.changes :
        /\ "Touched" \notin ret.changes[a].status
        /\ "SelfDestructed" \in ret.changes[a].status
        /\ ret.changes[a].storage # EmptyMap
        /\ a \in DOMAIN prev.accounts
        /\ prev.accounts[a].account_state # "NotExisting"
        /\ prev.accounts[a].info # ret.changes[a].info
    /\ TouchedOnly(ret.changes) # EmptyMap
    /\ accounts # prev.accounts

============================================================================
